---- MODULE Spec2Model ----
(***************************************************************************)
(* A model of the path tracer fee1-dead/raytracer.                          *)
(*                                                                         *)
(* Three specifications share the module's variables:                      *)
(*   SpecBvh      scene construction (ObjectList::add / condense), BVH      *)
(*                construction and the two traversals (linear and BVH);     *)
(*   SpecRayColor one invocation of Camera::ray_color, call by call;        *)
(*   SpecRender   Camera::render, the parallel pixel loop.                  *)
(*                                                                         *)
(* f64 values are modelled as extended rationals <<n, d>>: d > 0 is the     *)
(* rational n/d in lowest terms, <<1,0>> is +inf, <<-1,0>> is -inf and      *)
(* <<0,0>> is NaN.  Rounding is not modelled; infinities and NaN are.       *)
(***************************************************************************)
EXTENDS Integers, Sequences, FiniteSets, TLC

VARIABLES
    world,      \* ObjectList: [objects, aabb]
    bvh,        \* Option<BvhNode> built by BvhNode::from over the list's objects
    cast,       \* the ray and interval of the current query, or None
    list_rec,   \* result of ObjectList::hit for cast: Pending or Option<HitRecord>
    bvh_rec,    \* result of BvhNode::hit for cast: Pending or Option<HitRecord>
    panicked,   \* "" or the panic message that ended the operation
    rc,         \* the state of one Camera::ray_color invocation
    rd,         \* the state of one Camera::render invocation
    app         \* the last call of a function of interval.rs, aabb.rs or color.rs

vars == <<world, bvh, cast, list_rec, bvh_rec, panicked, rc, rd, app>>

-----------------------------------------------------------------------------
(* f64 *)

RECURSIVE GCD(_, _)
GCD(a, b) == IF b = 0 THEN a ELSE GCD(b, a % b)

AbsInt(n) == IF n < 0 THEN -n ELSE n

SignInt(n) == IF n < 0 THEN -1 ELSE IF n > 0 THEN 1 ELSE 0

\* <<n, d>> in canonical form (d >= 0 on entry)
Norm(x) ==
    IF x[2] = 0 THEN <<SignInt(x[1]), 0>>
    ELSE LET g == GCD(AbsInt(x[1]), x[2]) IN <<x[1] \div g, x[2] \div g>>

F(n) == <<n, 1>>
Q(n, d) == Norm(<<n, d>>)
INFINITY == <<1, 0>>
NEG_INFINITY == <<-1, 0>>
NAN == <<0, 0>>

IsNan(a) == a = NAN
IsInf(a) == a[2] = 0 /\ a[1] # 0
is_finite(a) == a[2] > 0

FNeg(a) == <<-a[1], a[2]>>

FAdd(a, b) ==
    IF IsNan(a) \/ IsNan(b) THEN NAN
    ELSE IF IsInf(a) /\ IsInf(b) THEN (IF a = b THEN a ELSE NAN)
    ELSE IF IsInf(a) THEN a
    ELSE IF IsInf(b) THEN b
    ELSE Norm(<<a[1] * b[2] + b[1] * a[2], a[2] * b[2]>>)

FSub(a, b) == FAdd(a, FNeg(b))

FMul(a, b) == Norm(<<a[1] * b[1], a[2] * b[2]>>)

\* 1.0 / a (a zero is +0.0)
FRecip(a) ==
    IF a[1] = 0 THEN (IF a[2] = 0 THEN NAN ELSE INFINITY)
    ELSE IF a[1] > 0 THEN <<a[2], a[1]>>
    ELSE <<-a[2], -a[1]>>

FDiv(a, b) == FMul(a, FRecip(b))

\* a < b; false when either is NaN
FLt(a, b) ==
    /\ ~IsNan(a)
    /\ ~IsNan(b)
    /\ IF a[2] = 0 /\ b[2] = 0 THEN a[1] < b[1]
       ELSE a[1] * b[2] < b[1] * a[2]

FLe(a, b) == ~IsNan(a) /\ ~IsNan(b) /\ (a = b \/ FLt(a, b))

\* f64::min / f64::max: a NaN argument is ignored
FMin(a, b) == IF IsNan(a) THEN b ELSE IF IsNan(b) THEN a ELSE IF FLt(b, a) THEN b ELSE a
FMax(a, b) == IF IsNan(a) THEN b ELSE IF IsNan(b) THEN a ELSE IF FLt(a, b) THEN b ELSE a

FAbs(a) == <<AbsInt(a[1]), a[2]>>

IsSquareInt(n) == \E k \in 0..n : k * k = n
ISqrt(n) == CHOOSE k \in 0..n : k * k = n

\* the values whose square root is again a rational (or not finite)
SqrtExact(a) == a[2] = 0 \/ a[1] < 0 \/ (IsSquareInt(a[1]) /\ IsSquareInt(a[2]))

\* f64::sqrt, on the values of SqrtExact
FSqrt(a) ==
    IF IsNan(a) THEN NAN
    ELSE IF a[1] < 0 THEN NAN
    ELSE IF a[2] = 0 THEN INFINITY
    ELSE <<ISqrt(a[1]), ISqrt(a[2])>>

-----------------------------------------------------------------------------
(* let *)

\* "let v = ..;": the value bound once, then used by what follows
With(v, Body(_)) == Body(v)

-----------------------------------------------------------------------------
(* Option *)

None == [some |-> FALSE]
Some(x) == [some |-> TRUE, val |-> x]
Pending == [some |-> FALSE, pending |-> TRUE]

-----------------------------------------------------------------------------
(* vec3.rs, ray.rs *)

Vec3(x, y, z) == <<x, y, z>>
VAdd(a, b) == <<FAdd(a[1], b[1]), FAdd(a[2], b[2]), FAdd(a[3], b[3])>>
VSub(a, b) == <<FSub(a[1], b[1]), FSub(a[2], b[2]), FSub(a[3], b[3])>>
VNeg(a) == <<FNeg(a[1]), FNeg(a[2]), FNeg(a[3])>>
VScale(a, s) == <<FMul(a[1], s), FMul(a[2], s), FMul(a[3], s)>>
VDivS(a, s) == <<FDiv(a[1], s), FDiv(a[2], s), FDiv(a[3], s)>>
dot(a, b) == FAdd(FAdd(FMul(a[1], b[1]), FMul(a[2], b[2])), FMul(a[3], b[3]))
length_squared(a) == dot(a, a)
splat(x) == <<x, x, x>>

Ray(origin, direction) == [origin |-> origin, direction |-> direction]
at(r, t) == VAdd(r.origin, VScale(r.direction, t))

-----------------------------------------------------------------------------
(* interval.rs *)

Interval(min, max) == [min |-> min, max |-> max]
IntervalEMPTY == Interval(INFINITY, NEG_INFINITY)
\* the slip "the overlap of the two" in place of their hull
IntervalMergeOverlap(a, b) == Interval(FMax(a.min, b.min), FMin(a.max, b.max))

IntervalMerge(a, b) == Interval(FMin(a.min, b.min), FMax(a.max, b.max))
expand(i, delta) ==
    LET padding == FDiv(delta, F(2))
    IN Interval(FSub(i.min, padding), FAdd(i.max, padding))
size(i) == FSub(i.max, i.min)
contains(i, x) == FLe(i.min, x) /\ FLe(x, i.max)
surrounds(i, x) == FLt(i.min, x) /\ FLt(x, i.max)

-----------------------------------------------------------------------------
(* aabb.rs *)

Aabb(x, y, z) == [x |-> x, y |-> y, z |-> z]
AabbEMPTY == Aabb(IntervalEMPTY, IntervalEMPTY, IntervalEMPTY)

\* the padding minimum 0.0001
PadDelta == Q(1, 10000)

\* the slip "no padding"
PadAxisNone(i) == i

PadAxis(i) == IF FLt(size(i), PadDelta) THEN expand(i, PadDelta) ELSE i

pad_to_minimums(b) == Aabb(PadAxis(b.x), PadAxis(b.y), PadAxis(b.z))

AabbNew(x, y, z) == pad_to_minimums(Aabb(x, y, z))

mk_interval(a, b) == IF FLe(a, b) THEN Interval(a, b) ELSE Interval(b, a)

from_points(a, b) ==
    AabbNew(mk_interval(a[1], b[1]), mk_interval(a[2], b[2]), mk_interval(a[3], b[3]))

\* one iteration of the slab loop: the narrowed interval
SlabStep(ax, origin_axis, dir_axis, ray_t) ==
    With(FRecip(dir_axis), LAMBDA adinv :
    With(FMul(FSub(ax.min, origin_axis), adinv), LAMBDA t0 :
    With(FMul(FSub(ax.max, origin_axis), adinv), LAMBDA t1 :
    With(FMin(t0, t1), LAMBDA lo :
    With(FMax(t0, t1), LAMBDA hi :
        Interval(IF FLt(ray_t.min, lo) THEN lo ELSE ray_t.min,
                 IF FLt(hi, ray_t.max) THEN hi ELSE ray_t.max))))))

SlabMiss(ray_t) == FLe(ray_t.max, ray_t.min)

AabbHit(b, r, ray_t) ==
    With(SlabStep(b.x, r.origin[1], r.direction[1], ray_t), LAMBDA t1 :
        IF SlabMiss(t1) THEN FALSE
        ELSE With(SlabStep(b.y, r.origin[2], r.direction[2], t1), LAMBDA t2 :
            IF SlabMiss(t2) THEN FALSE
            ELSE ~SlabMiss(SlabStep(b.z, r.origin[3], r.direction[3], t2))))

AabbMerge(a, b) ==
    Aabb(IntervalMerge(a.x, b.x), IntervalMerge(a.y, b.y), IntervalMerge(a.z, b.z))

\* the slip "the first of several equally long axes"
longest_axis_first(b) ==
    IF FLe(size(b.y), size(b.x)) /\ FLe(size(b.z), size(b.x)) THEN 0
    ELSE IF FLe(size(b.z), size(b.y)) THEN 1
    ELSE 2

\* Iterator::max_by keeps the last of several equally maximum elements
longest_axis(b) ==
    LET sx == size(b.x)
        sy == size(b.y)
        sz == size(b.z)
        m1 == IF FLt(sy, sx) THEN 0 ELSE 1
        s1 == IF FLt(sy, sx) THEN sx ELSE sy
    IN IF FLt(sz, s1) THEN m1 ELSE 2

-----------------------------------------------------------------------------
(* object.rs: HitRecord, Sphere *)

\* the slip "the normal stored is always the outward normal"
HitRecordNewNoFlip(r, t, outward_normal, material) ==
    [point |-> at(r, t),
     normal |-> outward_normal,
     t |-> t,
     front_face |-> FLe(dot(r.direction, outward_normal), F(0)),
     material |-> material]

HitRecordNew(r, t, outward_normal, material) ==
    With(FLe(dot(r.direction, outward_normal), F(0)), LAMBDA front_face :
        [point |-> at(r, t),
         normal |-> IF front_face THEN outward_normal ELSE VNeg(outward_normal),
         t |-> t,
         front_face |-> front_face,
         material |-> material])

SphereNew(center, radius, material) ==
    [kind |-> "Sphere", center |-> center, radius |-> radius, material |-> material,
     aabb |-> from_points(VSub(center, splat(radius)), VAdd(center, splat(radius)))]

\* h*h - a*c of Sphere::hit
SphereDiscriminant(s, r) ==
    With(VSub(s.center, r.origin), LAMBDA oc :
    With(length_squared(r.direction), LAMBDA a :
    With(dot(r.direction, oc), LAMBDA h :
    With(FSub(length_squared(oc), FMul(s.radius, s.radius)), LAMBDA c :
        FSub(FMul(h, h), FMul(a, c))))))

\* the record Sphere::hit returns for an accepted root
SphereRecord(s, r, root) ==
    Some(HitRecordNew(r, root, VDivS(VSub(at(r, root), s.center), s.radius), s.material))

\* the slip "only the smaller root is tried"
SphereHitNearOnly(s, r, ray_t) ==
    With(VSub(s.center, r.origin), LAMBDA oc :
    With(length_squared(r.direction), LAMBDA a :
    With(dot(r.direction, oc), LAMBDA h :
    With(SphereDiscriminant(s, r), LAMBDA discriminant :
        IF FLt(discriminant, F(0)) THEN None
        ELSE With(FDiv(FSub(h, FSqrt(discriminant)), a), LAMBDA root1 :
                 IF surrounds(ray_t, root1) THEN SphereRecord(s, r, root1)
                 ELSE None)))))

SphereHit(s, r, ray_t) ==
    With(VSub(s.center, r.origin), LAMBDA oc :
    With(length_squared(r.direction), LAMBDA a :
    With(dot(r.direction, oc), LAMBDA h :
    With(SphereDiscriminant(s, r), LAMBDA discriminant :
        IF FLt(discriminant, F(0)) THEN None
        ELSE With(FSqrt(discriminant), LAMBDA sqrtd :
             With(FDiv(FSub(h, sqrtd), a), LAMBDA root1 :
             With(FDiv(FAdd(h, sqrtd), a), LAMBDA root2 :
                 IF surrounds(ray_t, root1) THEN SphereRecord(s, r, root1)
                 ELSE IF surrounds(ray_t, root2) THEN SphereRecord(s, r, root2)
                 ELSE None)))))))

-----------------------------------------------------------------------------
(* bvh.rs, object.rs: ObjectList *)

DummyObject == [kind |-> "DummyObject"]

bounding_box(o) ==
    IF o.kind = "BvhNode" THEN o.bbox
    ELSE IF o.kind = "DummyObject" THEN AabbEMPTY
    ELSE o.aabb

\* the slip "bbox = obj.bounding_box()": the box of the last object alone
MergeBoxesLast(bbox, objects) ==
    IF objects = <<>> THEN bbox ELSE bounding_box(objects[Len(objects)])

RECURSIVE MergeBoxes(_, _)
\* the loop "for obj in objects: bbox = bbox.merge(obj.bounding_box())"
MergeBoxes(bbox, objects) ==
    IF objects = <<>> THEN bbox
    ELSE MergeBoxes(AabbMerge(bbox, bounding_box(Head(objects))), Tail(objects))

AxisMin(o, axis) ==
    LET b == bounding_box(o)
    IN IF axis = 0 THEN b.x.min ELSE IF axis = 1 THEN b.y.min ELSE b.z.min

RECURSIVE InsertSorted(_, _, _)
\* o placed after every element whose key is not greater (a stable sort)
InsertSorted(sorted, o, axis) ==
    IF sorted = <<>> THEN <<o>>
    ELSE IF FLt(AxisMin(o, axis), AxisMin(Head(sorted), axis)) THEN <<o>> \o sorted
    ELSE <<Head(sorted)>> \o InsertSorted(Tail(sorted), o, axis)

RECURSIVE SortFrom(_, _, _)
SortFrom(sorted, rest, axis) ==
    IF rest = <<>> THEN sorted
    ELSE SortFrom(InsertSorted(sorted, Head(rest), axis), Tail(rest), axis)

\* the slip "the objects are split in the order they were given"
sort_by_none(objects, axis) == objects

\* objects.sort_by(cmp_with_axis(..)): stable, by the box minimum on the axis
sort_by(objects, axis) == SortFrom(<<>>, objects, axis)

BvhNode(left, right, bbox) ==
    [kind |-> "BvhNode", left |-> left, right |-> right, bbox |-> bbox]

BvhPanic == [kind |-> "panic", msg |-> "object list for BVH must be non-empty"]

RECURSIVE from_objects_mut_dummy(_)
\* the slip "an empty list gives a node over DummyObject" in place of the panic
from_objects_mut_dummy(objects) ==
    LET bbox == MergeBoxes(AabbEMPTY, objects)
        n == Len(objects)
    IN IF n = 0 THEN BvhNode(DummyObject, DummyObject, bbox)
       ELSE IF n = 1 THEN BvhNode(objects[1], objects[1], bbox)
       ELSE IF n = 2 THEN BvhNode(objects[1], objects[2], bbox)
       ELSE LET axis == longest_axis(bbox)
                sorted == sort_by(objects, axis)
                mid == n \div 2
                a1 == from_objects_mut_dummy(SubSeq(sorted, 1, mid))
                a2 == from_objects_mut_dummy(SubSeq(sorted, mid + 1, n))
            IN BvhNode(a1, a2, bbox)

RECURSIVE from_objects_mut_swapped(_)
\* the slip "two objects are popped into [o2, o1]"
from_objects_mut_swapped(objects) ==
    LET bbox == MergeBoxes(AabbEMPTY, objects)
        n == Len(objects)
    IN IF n = 0 THEN BvhPanic
       ELSE IF n = 1 THEN BvhNode(objects[1], objects[1], bbox)
       ELSE IF n = 2 THEN BvhNode(objects[2], objects[1], bbox)
       ELSE LET axis == longest_axis(bbox)
                sorted == sort_by(objects, axis)
                mid == n \div 2
                a1 == from_objects_mut_swapped(SubSeq(sorted, 1, mid))
                a2 == from_objects_mut_swapped(SubSeq(sorted, mid + 1, n))
            IN BvhNode(a1, a2, bbox)

RECURSIVE from_objects_mut_uneven(_)
\* the slip "the sorted objects are split after the first one"
from_objects_mut_uneven(objects) ==
    LET bbox == MergeBoxes(AabbEMPTY, objects)
        n == Len(objects)
    IN IF n = 0 THEN BvhPanic
       ELSE IF n = 1 THEN BvhNode(objects[1], objects[1], bbox)
       ELSE IF n = 2 THEN BvhNode(objects[1], objects[2], bbox)
       ELSE LET axis == longest_axis(bbox)
                sorted == sort_by(objects, axis)
                a1 == from_objects_mut_uneven(SubSeq(sorted, 1, 1))
                a2 == from_objects_mut_uneven(SubSeq(sorted, 2, n))
            IN BvhNode(a1, a2, bbox)

RECURSIVE from_objects_mut(_)
from_objects_mut(objects) ==
    LET bbox == MergeBoxes(AabbEMPTY, objects)
        n == Len(objects)
    IN IF n = 0 THEN BvhPanic
       ELSE IF n = 1 THEN BvhNode(objects[1], objects[1], bbox)
       ELSE IF n = 2 THEN BvhNode(objects[1], objects[2], bbox)
       ELSE LET axis == longest_axis(bbox)
                sorted == sort_by(objects, axis)
                mid == n \div 2
                a1 == from_objects_mut(SubSeq(sorted, 1, mid))
                a2 == from_objects_mut(SubSeq(sorted, mid + 1, n))
            IN BvhNode(a1, a2, bbox)

RECURSIVE from_objects_mut_vec(_)
\* the vector `objects` as from_objects_mut leaves it: one pop, two pops, or
\* sort_by, split_off(mid) and the recursive call on what is left of it
from_objects_mut_vec(objects) ==
    LET bbox == MergeBoxes(AabbEMPTY, objects)
        n == Len(objects)
    IN IF n = 0 THEN objects
       ELSE IF n = 1 THEN SubSeq(objects, 1, n - 1)
       ELSE IF n = 2 THEN SubSeq(SubSeq(objects, 1, n - 1), 1, n - 2)
       ELSE LET axis == longest_axis(bbox)
                sorted == sort_by(objects, axis)
                mid == n \div 2
            IN from_objects_mut_vec(SubSeq(sorted, 1, mid))

RECURSIVE Hit(_, _, _)
\* Object::hit, dispatched on the kind of object
Hit(o, r, ray_t) ==
    IF o.kind = "Sphere" THEN SphereHit(o, r, ray_t)
    ELSE IF o.kind = "DummyObject" THEN None
    ELSE \* BvhNode::hit
        IF ~AabbHit(o.bbox, r, ray_t) THEN None
        ELSE With(Hit(o.left, r, ray_t), LAMBDA rec :
             With(IF rec.some THEN Interval(ray_t.min, rec.val.t) ELSE ray_t, LAMBDA ray_t2 :
             With(Hit(o.right, r, ray_t2), LAMBDA rec2 :
                 IF rec2.some THEN rec2 ELSE rec)))

RECURSIVE ListScanNoLower(_, _, _, _, _)
\* the loop with the upper bound left where it started
ListScanNoLower(objects, r, tmin, closest, hit_record) ==
    IF objects = <<>> THEN hit_record
    ELSE With(Hit(Head(objects), r, Interval(tmin, closest)), LAMBDA record :
            IF record.some
            THEN ListScanNoLower(Tail(objects), r, tmin, closest, record)
            ELSE ListScanNoLower(Tail(objects), r, tmin, closest, hit_record))

RECURSIVE ListScan(_, _, _, _, _)
\* the loop of ObjectList::hit over the remaining objects
ListScan(objects, r, tmin, closest, hit_record) ==
    IF objects = <<>> THEN hit_record
    ELSE With(Hit(Head(objects), r, Interval(tmin, closest)), LAMBDA record :
            IF record.some
            THEN ListScan(Tail(objects), r, tmin, record.val.t, record)
            ELSE ListScan(Tail(objects), r, tmin, closest, hit_record))

ObjectListHit(w, r, ray_t) == ListScan(w.objects, r, ray_t.min, ray_t.max, None)

ObjectListDefault == [objects |-> <<>>, aabb |-> AabbEMPTY]

\* the slip "add pushes the object and leaves the cached box alone"
ObjectListAddPushOnly(w, o) == [objects |-> Append(w.objects, o), aabb |-> w.aabb]

ObjectListAdd(w, o) ==
    [objects |-> Append(w.objects, o), aabb |-> AabbMerge(w.aabb, bounding_box(o))]

ObjectListCondense(w) ==
    [objects |-> <<from_objects_mut(w.objects)>>, aabb |-> w.aabb]

-----------------------------------------------------------------------------
(* material.rs: the closed set AnyMaterial *)

Lambertian(albedo) == [kind |-> "Lambertian", albedo |-> albedo]
Metal(albedo, fuzziness) ==
    [kind |-> "Metal", albedo |-> albedo, fuzziness |-> FMin(fuzziness, F(1))]
Dielectric(refraction_index) == [kind |-> "Dielectric", refraction_index |-> refraction_index]
DiffuseLight(c) == [kind |-> "DiffuseLight", color |-> c]
DummyMaterial == [kind |-> "DummyMaterial"]

-----------------------------------------------------------------------------
(* Scenes and rays of SpecBvh *)

\* the most primitives a scene holds
MaxObjects == 3

SceneObjects ==
    { SphereNew(Vec3(F(0), F(0), F(0)), F(1), Lambertian(splat(Q(1, 2)))),
      SphereNew(Vec3(F(4), F(0), F(0)), F(1), Metal(splat(Q(1, 2)), F(0))),
      SphereNew(Vec3(F(0), F(4), F(0)), F(1), Dielectric(Q(3, 2))),
      SphereNew(Vec3(F(4), F(4), F(3)), F(1), DiffuseLight(splat(F(4)))) }

RayOrigins ==
    { Vec3(F(-5), F(0), F(0)), Vec3(F(-5), F(1), F(0)), Vec3(F(0), F(-5), F(0)),
      Vec3(F(0), F(0), F(0)), Vec3(F(-5), F(4), F(0)), Vec3(F(4), F(-5), F(3)) }

RayDirections == { Vec3(F(1), F(0), F(0)), Vec3(F(0), F(1), F(0)) }

RayIntervals == { Interval(Q(1, 1000), INFINITY), Interval(F(0), F(6)) }

RECURSIVE Leaves(_)
\* the primitives beneath an object, left to right
Leaves(o) ==
    IF o.kind = "BvhNode"
    THEN (IF o.left = o.right THEN Leaves(o.left) ELSE Leaves(o.left) \o Leaves(o.right))
    ELSE <<o>>

RECURSIVE ListLeaves(_)
ListLeaves(objects) ==
    IF objects = <<>> THEN <<>> ELSE Leaves(Head(objects)) \o ListLeaves(Tail(objects))

\* the rays whose sphere intersections are rational
ExactRay(objects, r) ==
    \A i \in 1..Len(ListLeaves(objects)) :
        ListLeaves(objects)[i].kind = "Sphere"
            => SqrtExact(SphereDiscriminant(ListLeaves(objects)[i], r))

IsCondensed(w) == \E i \in 1..Len(w.objects) : w.objects[i].kind = "BvhNode"

RenderIdle == [pc |-> "idle"]
AppIdle == [op |-> "idle"]
RayColorIdle == [pc |-> "idle"]

InitBvh ==
    /\ world = ObjectListDefault
    /\ bvh = None
    /\ cast = None
    /\ list_rec = Pending
    /\ bvh_rec = Pending
    /\ panicked = ""
    /\ rc = RayColorIdle
    /\ rd = RenderIdle
    /\ app = AppIdle

\* ObjectList::add
Add(o) ==
    /\ panicked = ""
    /\ bvh = None
    /\ Len(ListLeaves(world.objects)) < MaxObjects
    /\ world' = ObjectListAdd(world, o)
    /\ UNCHANGED <<bvh, cast, list_rec, bvh_rec, panicked, rc, rd, app>>

\* ObjectList::condense: take(&mut self.objects), then push the BVH of them
Condense ==
    /\ panicked = ""
    /\ bvh = None
    /\ ~IsCondensed(world)
    /\ LET node == from_objects_mut(world.objects)
       IN IF node.kind = "panic"
          THEN /\ panicked' = node.msg
               /\ world' = [world EXCEPT !.objects = <<>>]
          ELSE /\ world' = ObjectListCondense(world)
               /\ UNCHANGED panicked
    /\ UNCHANGED <<bvh, cast, list_rec, bvh_rec, rc, rd, app>>

\* BvhNode::from(objects) over the objects of the list
BuildBvh ==
    /\ panicked = ""
    /\ bvh = None
    /\ LET node == from_objects_mut(world.objects)
       IN IF node.kind = "panic"
          THEN panicked' = node.msg /\ UNCHANGED bvh
          ELSE bvh' = Some(node) /\ UNCHANGED panicked
    /\ UNCHANGED <<world, cast, list_rec, bvh_rec, rc, rd, app>>

\* a ray and a search interval are fixed for the two traversals
Cast(r, ray_t) ==
    /\ panicked = ""
    /\ bvh.some
    /\ cast = None
    /\ ExactRay(world.objects, r)
    /\ cast' = Some([r |-> r, ray_t |-> ray_t])
    /\ UNCHANGED <<world, bvh, list_rec, bvh_rec, panicked, rc, rd, app>>

\* ObjectList::hit
HitList ==
    /\ cast.some
    /\ list_rec = Pending
    /\ list_rec' = ObjectListHit(world, cast.val.r, cast.val.ray_t)
    /\ UNCHANGED <<world, bvh, cast, bvh_rec, panicked, rc, rd, app>>

\* BvhNode::hit
HitBvh ==
    /\ cast.some
    /\ list_rec # Pending
    /\ bvh_rec = Pending
    /\ bvh_rec' = Hit(bvh.val, cast.val.r, cast.val.ray_t)
    /\ UNCHANGED <<world, bvh, cast, list_rec, panicked, rc, rd, app>>

NextBvh ==
    \/ \E o \in SceneObjects : Add(o)
    \/ Condense
    \/ BuildBvh
    \/ \E r \in RayOrigins, d \in RayDirections, t \in RayIntervals : Cast(Ray(r, d), t)
    \/ HitList
    \/ HitBvh

SpecBvh == InitBvh /\ [][NextBvh]_vars

-----------------------------------------------------------------------------
(* Claims about the BVH *)

IntervalsDisjoint(a, b) == FLt(a.max, b.min) \/ FLt(b.max, a.min)

BoxesDisjoint(a, b) ==
    \/ IntervalsDisjoint(a.x, b.x)
    \/ IntervalsDisjoint(a.y, b.y)
    \/ IntervalsDisjoint(a.z, b.z)

\* a scene of primitives no two of which overlap (not even their boxes touch)
NonOverlapping(objects) ==
    /\ \A i \in 1..Len(objects) : objects[i].kind = "Sphere"
    /\ \A i, j \in 1..Len(objects) :
        i # j => BoxesDisjoint(bounding_box(objects[i]), bounding_box(objects[j]))

SameHit(a, b) ==
    /\ a.some = b.some
    /\ a.some => (a.val.t = b.val.t /\ a.val.material = b.val.material)

\* C1: for a scene of at least 3 non-overlapping primitives, any ray and any
\* search interval, BvhNode::hit on the BVH built from the objects returns the
\* same nearest hit (same t, same material) as ObjectList::hit over the same
\* objects, and one misses exactly when the other does.
C1_BvhSameAsLinear ==
    (/\ bvh_rec # Pending
     /\ Len(world.objects) >= 3
     /\ NonOverlapping(world.objects))
    => SameHit(list_rec, bvh_rec)

\* C5: building a BVH from an empty object list (BvhNode::from, and so
\* ObjectList::condense) ends at once in a panic, and no BvhNode is produced:
\* the list stays empty and no tree exists.
C5_EmptyBvhPanics ==
    /\ [][((BuildBvh \/ Condense) /\ world.objects = <<>>)
            => (/\ panicked' = "object list for BVH must be non-empty"
                /\ bvh' = None
                /\ world'.objects = <<>>)]_vars
    /\ [](panicked # "" => (bvh = None /\ ~IsCondensed(world) /\ ~ENABLED NextBvh))

C5_Witness == panicked = "object list for BVH must be non-empty" /\ world.objects = <<>>

-----------------------------------------------------------------------------
(* color.rs, vec3.rs, material.rs, pdf.rs: what Camera::ray_color calls *)

Color(r, g, b) == <<r, g, b>>

\* Color::new(0.0, 0.0, 0.0)
Black == Color(F(0), F(0), F(0))

\* Color::default()
ColorDefault == Color(F(0), F(0), F(0))

\* Vec3 * Vec3, component by component
VMul(a, b) == <<FMul(a[1], b[1]), FMul(a[2], b[2]), FMul(a[3], b[3])>>

\* Vec3::assert_finite: TRUE when the assertion passes
assert_finite(c) == \A k \in 1..3 : is_finite(c[k])

length(v) == FSqrt(length_squared(v))
unit_vector(v) == VDivS(v, length(v))

\* self - 2.0 * self.dot(normal) * normal
reflect(v, normal) == VSub(v, VScale(normal, FMul(F(2), dot(v, normal))))

refract(v, normal, etai_over_etat) ==
    With(FMin(dot(VNeg(v), normal), F(1)), LAMBDA cos_theta :
    With(VScale(VAdd(v, VScale(normal, cos_theta)), etai_over_etat), LAMBDA r_out_perp :
    With(VScale(normal, FNeg(FSqrt(FAbs(FSub(F(1), length_squared(r_out_perp)))))),
         LAMBDA r_out_parallel :
        VAdd(r_out_perp, r_out_parallel))))

\* std::f64::consts::FRAC_1_PI, by the rational 7/22
FRAC_1_PI == Q(7, 22)

powi5(x) == FMul(FMul(FMul(FMul(x, x), x), x), x)

\* Dielectric::reflectance
reflectance(refraction_index, cosine) ==
    With(FDiv(FSub(F(1), refraction_index), FAdd(F(1), refraction_index)), LAMBDA r0 :
    With(FMul(r0, r0), LAMBDA r00 :
        FAdd(r00, FMul(FSub(F(1), r00), powi5(FSub(F(1), cosine))))))

ScatterRecord(attenuation, pdf, skip_pdf) ==
    [attenuation |-> attenuation, pdf |-> pdf, skip_pdf |-> skip_pdf]

\* CosinePdf::new(w): the unit normal the density is taken around
CosinePdf(w) == [kind |-> "CosinePdf", w |-> unit_vector(w)]
SpherePdf == [kind |-> "SpherePdf"]

\* the slip "a light emits on both of its faces"
emittedBothSides(m, rec) == IF m.kind = "DiffuseLight" THEN m.color ELSE ColorDefault

\* Material::emitted: DiffuseLight emits on its front face, the others not at all
emitted(m, rec) ==
    IF m.kind = "DiffuseLight"
    THEN (IF ~rec.front_face THEN splat(F(0)) ELSE m.color)
    ELSE ColorDefault

\* Metal::scatter; u.direction is the value of Vec3::random_unit_vector()
MetalScatter(m, r_in, rec, u) ==
    With(reflect(r_in.direction, rec.normal), LAMBDA reflected0 :
    With(VAdd(unit_vector(reflected0), VScale(u.direction, m.fuzziness)), LAMBDA reflected :
        IF FLt(F(0), dot(reflected, rec.normal))
        THEN Some(ScatterRecord(m.albedo, SpherePdf, Some(Ray(rec.point, reflected))))
        ELSE None))

\* the slip "the refraction index is never inverted"
DielectricScatterNoInvert(m, r_in, rec, u) ==
    With(m.refraction_index, LAMBDA ri :
    With(unit_vector(r_in.direction), LAMBDA unit_direction :
    With(FMin(dot(VNeg(unit_direction), rec.normal), F(1)), LAMBDA cos_theta :
    With(FSqrt(FSub(F(1), FMul(cos_theta, cos_theta))), LAMBDA sin_theta :
    With(FLt(F(1), FMul(ri, sin_theta)), LAMBDA cannot_refact :
    With(IF cannot_refact \/ FLt(u.rand, reflectance(ri, cos_theta))
         THEN reflect(unit_direction, rec.normal)
         ELSE refract(unit_direction, rec.normal, ri), LAMBDA direction :
        Some(ScatterRecord(splat(F(1)), SpherePdf, Some(Ray(rec.point, direction))))))))))

\* Dielectric::scatter; u.rand is the value of random_double()
DielectricScatter(m, r_in, rec, u) ==
    With(IF rec.front_face THEN FRecip(m.refraction_index) ELSE m.refraction_index,
         LAMBDA ri :
    With(unit_vector(r_in.direction), LAMBDA unit_direction :
    With(FMin(dot(VNeg(unit_direction), rec.normal), F(1)), LAMBDA cos_theta :
    With(FSqrt(FSub(F(1), FMul(cos_theta, cos_theta))), LAMBDA sin_theta :
    With(FLt(F(1), FMul(ri, sin_theta)), LAMBDA cannot_refact :
    With(IF cannot_refact \/ FLt(u.rand, reflectance(ri, cos_theta))
         THEN reflect(unit_direction, rec.normal)
         ELSE refract(unit_direction, rec.normal, ri), LAMBDA direction :
        Some(ScatterRecord(splat(F(1)), SpherePdf, Some(Ray(rec.point, direction))))))))))

\* Material::scatter of AnyMaterial
scatter(m, r_in, rec, u) ==
    CASE m.kind = "Lambertian" ->
            Some(ScatterRecord(m.albedo, CosinePdf(rec.normal), None))
      [] m.kind = "Metal" -> MetalScatter(m, r_in, rec, u)
      [] m.kind = "Dielectric" -> DielectricScatter(m, r_in, rec, u)
      [] OTHER -> None

\* Material::scattering_pdf: Lambertian's cosine density, 0.0 by default
scattering_pdf(m, rec, scattered) ==
    IF m.kind = "Lambertian"
    THEN FMul(FMax(dot(rec.normal, unit_vector(scattered.direction)), F(0)), FRAC_1_PI)
    ELSE F(0)

\* CosinePdf::value
CosinePdfValue(pdf, direction) ==
    FMax(F(0), FMul(dot(unit_vector(direction), pdf.w), FRAC_1_PI))

\* MixturePdf::value over ObjectPdf(lights) and the material's pdf; u.light is
\* lights.pdf_value(origin, direction)
MixtureValue(pdf, direction, u) ==
    FAdd(FMul(Q(1, 2), u.light), FMul(Q(1, 2), CosinePdfValue(pdf, direction)))

\* MixturePdf::generate: the direction one of the two densities produced
MixtureGenerate(u) == u.direction

-----------------------------------------------------------------------------
(* camera.rs: Camera::ray_color, one frame of the call stack at a time *)

\* the deepest recursion a caller asks for
MaxDepth == 3

\* Interval::new(0.001, f64::INFINITY)
RayT == Interval(Q(1, 1000), INFINITY)

\* the random values one call consumes: the direction a pdf or
\* random_unit_vector() generates, lights.pdf_value(..) and random_double()
Draw(direction, light, rand) == [direction |-> direction, light |-> light, rand |-> rand]

\* a call ray_color(r, depth) that has not run yet
Frame(r, depth) ==
    [r |-> r, depth |-> depth, pc |-> "start", made |-> 0,
     emission |-> Black, attenuation |-> Black,
     scattering_pdf |-> F(0), pdf_value |-> F(0)]

Top(stack) == stack[Len(stack)]
Pop(stack) == SubSeq(stack, 1, Len(stack) - 1)

\* what the last step of the invocation did
LastStep(op, frame, sample, how, value) ==
    [op |-> op, frame |-> frame, sample |-> sample, how |-> how, value |-> value]

\* the invocation ray_color(r, depth) before its first step; calls counts the
\* recursive calls made so far and steps the steps taken
RayColorCall(r, depth) ==
    [stack |-> <<Frame(r, depth)>>, ret |-> None, panicked |-> FALSE, calls |-> 0, steps |-> 0,
     last |-> LastStep("call", Frame(r, depth), Black, "call", Black)]

\* the depth the mutated recursion passes on
ChildDepthSame(depth) == depth

\* depth-1, the depth of a recursive call
ChildDepth(depth) == depth - 1

\* the miss of a mutated integrator
MissReturnBlack(background) == Black

\* self.background, returned on a miss
MissReturn(background) == background

\* return color_from_emission
NoScatterReturn(color_from_emission) == color_from_emission

\* the skip_pdf return of a mutated integrator, divided by a density
SkipReturnOverPdf(attenuation, sample_color) == VDivS(VMul(attenuation, sample_color), Q(1, 2))

\* srec.attenuation * self.ray_color(ray, depth-1, ..)
SkipReturn(attenuation, sample_color) == VMul(attenuation, sample_color)

\* srec.attenuation * scattering_pdf * sample_color / pdf_value
ScatterColor(attenuation, spdf, sample_color, pdf_value) ==
    VDivS(VMul(VScale(attenuation, spdf), sample_color), pdf_value)

\* ray_color from its entry to its first return, panic or recursive call
ray_color_enter(st, background, w, u) ==
    LET f == Top(st.stack)
        return(value, how) ==
            [st EXCEPT !.stack = Pop(@), !.ret = Some(value), !.steps = @ + 1,
                       !.last = LastStep("enter", f, Black, how, value)]
        call(frame, ray, how) ==
            [st EXCEPT !.stack = Append(Pop(@), frame) \o <<Frame(ray, ChildDepth(f.depth))>>,
                       !.ret = None, !.calls = @ + 1, !.steps = @ + 1,
                       !.last = LastStep("enter", f, Black, how, Black)]
    IN IF f.depth = 0 THEN return(Black, "depth")
       ELSE
       With(ObjectListHit(w, f.r, RayT), LAMBDA record :
       IF ~record.some THEN return(MissReturn(background), "miss")
       ELSE
       With(record.val, LAMBDA rec :
       With(emitted(rec.material, rec), LAMBDA color_from_emission :
       IF ~assert_finite(color_from_emission)
       THEN [st EXCEPT !.panicked = TRUE, !.steps = @ + 1,
                       !.last = LastStep("enter", f, Black, "panic", color_from_emission)]
       ELSE
       With(scatter(rec.material, f.r, rec, u), LAMBDA srec :
       IF ~srec.some THEN return(NoScatterReturn(color_from_emission), "emission")
       ELSE IF srec.val.skip_pdf.some
       THEN call([f EXCEPT !.pc = "skip", !.made = @ + 1, !.emission = color_from_emission,
                           !.attenuation = srec.val.attenuation],
                 srec.val.skip_pdf.val, "skip")
       ELSE
       With(Ray(rec.point, MixtureGenerate(u)), LAMBDA scattered :
       call([f EXCEPT !.pc = "pdf", !.made = @ + 1, !.emission = color_from_emission,
                      !.attenuation = srec.val.attenuation,
                      !.scattering_pdf = scattering_pdf(rec.material, rec, scattered),
                      !.pdf_value = MixtureValue(srec.val.pdf, scattered.direction, u)],
            scattered, "pdf"))))))

\* ray_color from the return of its recursive call to its own return or panic
ray_color_resume(st) ==
    LET f == Top(st.stack)
        sample_color == st.ret.val
        return(value) ==
            [st EXCEPT !.stack = Pop(@), !.ret = Some(value), !.steps = @ + 1,
                       !.last = LastStep("resume", f, sample_color, "return", value)]
    IN IF f.pc = "skip" THEN return(SkipReturn(f.attenuation, sample_color))
       ELSE
       With(ScatterColor(f.attenuation, f.scattering_pdf, sample_color, f.pdf_value),
            LAMBDA color_from_scatter :
       IF ~assert_finite(color_from_scatter)
       THEN [st EXCEPT !.panicked = TRUE, !.steps = @ + 1,
                       !.last = LastStep("resume", f, sample_color, "panic",
                                         color_from_scatter)]
       ELSE return(VAdd(f.emission, color_from_scatter)))

RayColorRunning(st) == ~st.panicked /\ st.stack # <<>>

-----------------------------------------------------------------------------
(* The scene, the rays and the random values of SpecRayColor *)

\* unit spheres on the integer lattice: a light, a mirror, a diffuse ball and a
\* glass ball along the y axis, a light of infinite radiance and a ball of
\* DummyMaterial beside them
RcObjects ==
    << SphereNew(Vec3(F(0), F(0), F(0)), F(1), Lambertian(splat(Q(1, 2)))),
       SphereNew(Vec3(F(0), F(-16), F(0)), F(1), Metal(splat(Q(1, 2)), F(0))),
       SphereNew(Vec3(F(0), F(4), F(0)), F(1), Dielectric(Q(3, 2))),
       SphereNew(Vec3(F(0), F(-8), F(0)), F(1), DiffuseLight(splat(F(4)))),
       SphereNew(Vec3(F(4), F(0), F(0)), F(1), DiffuseLight(splat(INFINITY))),
       SphereNew(Vec3(F(8), F(0), F(0)), F(1), DummyMaterial) >>

RECURSIVE AddAll(_, _)
\* ObjectList::add_all
AddAll(w, objects) ==
    IF objects = <<>> THEN w ELSE AddAll(ObjectListAdd(w, Head(objects)), Tail(objects))

RcWorld == AddAll(ObjectListDefault, RcObjects)

\* rays a caller passes to ray_color
RcRays ==
    { Ray(Vec3(F(0), F(-5), F(0)), Vec3(F(0), F(1), F(0))),
      Ray(Vec3(F(0), F(-12), F(0)), Vec3(F(0), F(-1), F(0))),
      Ray(Vec3(F(0), F(9), F(0)), Vec3(F(0), F(-1), F(0))),
      Ray(Vec3(F(0), F(-5), F(0)), Vec3(F(0), F(-1), F(0))),
      Ray(Vec3(F(0), F(-8), F(0)), Vec3(F(0), F(1), F(0))),
      Ray(Vec3(F(0), F(9), F(0)), Vec3(F(0), F(1), F(0))),
      Ray(Vec3(F(4), F(-5), F(0)), Vec3(F(0), F(1), F(0))),
      Ray(Vec3(F(8), F(-5), F(0)), Vec3(F(0), F(1), F(0))),
      Ray(Vec3(F(-5), F(-15), F(0)), Vec3(F(1), F(0), F(0))) }

RcBackgrounds == { Black, Color(Q(1, 2), Q(7, 10), F(1)) }

RcDirections ==
    { Vec3(F(1), F(0), F(0)), Vec3(F(-1), F(0), F(0)), Vec3(F(0), F(1), F(0)),
      Vec3(F(0), F(-1), F(0)), Vec3(F(0), F(0), F(1)), Vec3(F(0), F(0), F(-1)) }

RcDraws ==
    { Draw(d, l, x) : d \in RcDirections, l \in {F(0), F(1)}, x \in {F(0), Q(1, 2)} }

InitRayColor ==
    /\ world = RcWorld
    /\ bvh = None
    /\ cast = None
    /\ list_rec = Pending
    /\ bvh_rec = Pending
    /\ panicked = ""
    /\ rc = RayColorIdle
    /\ rd = RenderIdle
    /\ app = AppIdle

\* a caller invokes self.ray_color(r, depth, &world, &lights)
RcCall(r, depth, background) ==
    /\ rc.pc = "idle"
    /\ rc' = [pc |-> "run", background |-> background, r0 |-> r, depth0 |-> depth,
              st |-> RayColorCall(r, depth)]
    /\ UNCHANGED <<world, bvh, cast, list_rec, bvh_rec, panicked, rd, app>>

\* the innermost call runs from its entry to its return, panic or recursion
RcEnter(u) ==
    /\ rc.pc = "run"
    /\ RayColorRunning(rc.st)
    /\ ~rc.st.ret.some
    /\ Len(rc.st.stack) <= MaxDepth + 1
    /\ rc' = [rc EXCEPT !.st = ray_color_enter(rc.st, rc.background, world, u)]
    /\ UNCHANGED <<world, bvh, cast, list_rec, bvh_rec, panicked, rd, app>>

\* the caller of a returned call runs on to its own return or panic
RcResume ==
    /\ rc.pc = "run"
    /\ RayColorRunning(rc.st)
    /\ rc.st.ret.some
    /\ rc' = [rc EXCEPT !.st = ray_color_resume(rc.st)]
    /\ UNCHANGED <<world, bvh, cast, list_rec, bvh_rec, panicked, rd, app>>

\* the outermost call hands its colour to the caller
RcFinish ==
    /\ rc.pc = "run"
    /\ ~rc.st.panicked
    /\ rc.st.stack = <<>>
    /\ rc' = [rc EXCEPT !.pc = "done"]
    /\ UNCHANGED <<world, bvh, cast, list_rec, bvh_rec, panicked, rd, app>>

\* a failed assert_finite unwinds the whole invocation
RcPanic ==
    /\ rc.pc = "run"
    /\ rc.st.panicked
    /\ rc' = [rc EXCEPT !.pc = "panicked"]
    /\ panicked' = "assertion failed: v.is_finite()"
    /\ UNCHANGED <<world, bvh, cast, list_rec, bvh_rec, rd, app>>

NextRayColor ==
    \/ \E r \in RcRays, depth \in 0..MaxDepth, background \in RcBackgrounds :
            RcCall(r, depth, background)
    \/ \E u \in RcDraws : RcEnter(u)
    \/ RcResume
    \/ RcFinish
    \/ RcPanic

SpecRayColor == InitRayColor /\ [][NextRayColor]_vars

-----------------------------------------------------------------------------
(* Claims about Camera::ray_color *)

\* the hit of the call a frame stands for
FrameHit(f) == ObjectListHit(world, f.r, RayT)

\* the frames of the call stack, the recursion they record
DepthChain(st) ==
    /\ st.stack # <<>> => st.stack[1].depth <= rc.depth0
    /\ \A k \in 1..Len(st.stack) :
        /\ st.stack[k].made <= 1
        /\ k < Len(st.stack) =>
            /\ st.stack[k].depth > 0
            /\ st.stack[k].made = 1
            /\ st.stack[k + 1].depth = st.stack[k].depth - 1

\* C4: ray_color(ray, depth) returns black at once when depth == 0, every
\* recursive call passes depth-1 and each call makes at most one recursive
\* call; so an invocation with depth d makes at most d nested calls, never
\* holds more than d+1 frames, and is over within 2d+1 steps.
C4_DepthBoundsRecursion ==
    rc.pc # "idle" =>
        /\ (rc.st.last.op = "enter" /\ rc.st.last.frame.depth = 0)
                => (/\ rc.st.last.how = "depth"
                    /\ rc.st.last.frame.made = 0
                    /\ rc.st.ret = Some(Black))
        /\ DepthChain(rc.st)
        /\ rc.st.last.frame.made <= 1
        /\ rc.st.calls <= rc.depth0
        /\ Len(rc.st.stack) <= rc.depth0 + 1
        /\ rc.st.steps <= 2 * rc.depth0 + 1
        /\ rc.st.steps = 2 * rc.depth0 + 1 => ~RayColorRunning(rc.st)

\* the deepest invocation, gone all the way down and back
C4_Witness ==
    /\ rc.pc = "done"
    /\ rc.depth0 = MaxDepth
    /\ rc.st.calls = MaxDepth
    /\ rc.st.steps = 2 * MaxDepth + 1
    /\ rc.st.ret.some

\* C8: for depth > 0, ray_color returns the background colour when the ray
\* hits nothing, and returns the emitted colour of the hit material alone,
\* without a recursive call, when the material's scatter gives no
\* ScatterRecord (the emitted colour having passed its finite assertion).
C8_MissAndNoScatter ==
    (rc.pc # "idle" /\ rc.st.last.op = "enter" /\ rc.st.last.frame.depth > 0) =>
        LET last == rc.st.last
            record == FrameHit(last.frame)
            rec == record.val
            emission == emitted(rec.material, rec)
        IN /\ ~record.some =>
                /\ last.how = "miss"
                /\ rc.st.ret = Some(rc.background)
                /\ last.frame.made = 0
           /\ last.how = "miss" => ~record.some
           /\ (/\ record.some
               /\ assert_finite(emission)
               /\ \A u \in RcDraws : ~scatter(rec.material, last.frame.r, rec, u).some) =>
                /\ last.how = "emission"
                /\ rc.st.ret = Some(emission)
                /\ last.frame.made = 0
           /\ last.how = "emission" =>
                /\ record.some
                /\ \E u \in RcDraws : ~scatter(rec.material, last.frame.r, rec, u).some
                /\ rc.st.ret = Some(emission)

\* a miss under a sky that is not black, one call deep
C8_Witness ==
    /\ rc.pc = "run"
    /\ rc.st.last.op = "enter"
    /\ rc.st.last.how = "miss"
    /\ rc.st.last.frame.depth > 0
    /\ rc.st.ret = Some(Color(Q(1, 2), Q(7, 10), F(1)))
    /\ rc.st.stack # <<>>

\* a light seen in a mirror: the hit of the light returns its emission alone
C8_WitnessNoScatter ==
    /\ rc.pc = "run"
    /\ rc.st.last.op = "enter"
    /\ rc.st.last.how = "emission"
    /\ rc.st.ret = Some(splat(F(4)))
    /\ rc.st.stack # <<>>

\* C9: when the scatter result carries a pre-determined ray (skip_pdf is
\* Some), ray_color recurses exactly once, along that ray and with depth-1,
\* and returns emission + attenuation * radiance(that ray, depth-1), not
\* divided by any PDF value.
C9_SkipPdfRecursesOnce ==
    rc.pc # "idle" =>
        /\ \A k \in 1..Len(rc.st.stack) :
            rc.st.stack[k].pc = "skip" =>
                LET f == rc.st.stack[k]
                    rec == FrameHit(f).val
                IN /\ FrameHit(f).some
                   /\ f.made = 1
                   /\ k < Len(rc.st.stack) =>
                        /\ rc.st.stack[k + 1].depth = f.depth - 1
                        /\ \E u \in RcDraws :
                            LET srec == scatter(rec.material, f.r, rec, u)
                            IN srec.some /\ srec.val.skip_pdf = Some(rc.st.stack[k + 1].r)
        /\ (rc.st.last.op = "resume" /\ rc.st.last.frame.pc = "skip") =>
                LET last == rc.st.last
                    rec == FrameHit(last.frame).val
                IN /\ last.how = "return"
                   /\ last.frame.made = 1
                   /\ rc.st.ret = Some(last.value)
                   /\ \E u \in RcDraws :
                        LET srec == scatter(rec.material, last.frame.r, rec, u)
                        IN /\ srec.some
                           /\ srec.val.skip_pdf.some
                           /\ last.value = VAdd(emitted(rec.material, rec),
                                                VMul(srec.val.attenuation, last.sample))

\* the mirror returns half the radiance of the light it reflects
C9_Witness ==
    /\ rc.pc = "run"
    /\ rc.st.last.op = "resume"
    /\ rc.st.last.frame.pc = "skip"
    /\ rc.st.last.sample = splat(F(4))
    /\ rc.st.ret = Some(splat(F(2)))

-----------------------------------------------------------------------------
(* camera.rs, color.rs, utils.rs: CameraBuilder::build and what render calls *)

\* the worker threads of the rayon pool
NumWorkers == 2

Workers == 1..NumWorkers

Max(a, b) == IF a >= b THEN a ELSE b
Min(a, b) == IF a <= b THEN a ELSE b

\* x as u64, for the x that are not infinite: NaN and negatives give 0
AsU64(a) == IF a[2] = 0 \/ a[1] < 0 THEN 0 ELSE a[1] \div a[2]

\* (n as f64).sqrt() as u64
SqrtAsU64(n) == CHOOSE k \in 0..n : k * k <= n /\ n < (k + 1) * (k + 1)

\* the scale of a mutated camera, 1 / sqrt_spp
PixelSamplesScaleLinear(sqrt_spp) == FRecip(F(sqrt_spp))

\* 1.0 / (sqrt_spp as f64 * sqrt_spp as f64)
PixelSamplesScale(sqrt_spp) == FDiv(F(1), FMul(F(sqrt_spp), F(sqrt_spp)))

CameraBuilder(image_width, aspect_ratio, samples_per_pixel, max_depth, background) ==
    [image_width |-> image_width, aspect_ratio |-> aspect_ratio,
     samples_per_pixel |-> samples_per_pixel, max_depth |-> max_depth,
     background |-> background]

\* CameraBuilder::build, the fields render and ray_color read
CameraBuild(cb) ==
    With(AsU64(FDiv(F(cb.image_width), cb.aspect_ratio)), LAMBDA image_height :
    With(SqrtAsU64(cb.samples_per_pixel), LAMBDA sqrt_spp :
        [image_width |-> cb.image_width,
         image_height |-> Max(image_height, 1),
         background |-> cb.background,
         sqrt_spp |-> sqrt_spp,
         pixel_samples_scale |-> PixelSamplesScale(sqrt_spp),
         max_depth |-> cb.max_depth]))

\* the cameras rendered: 2x1, 1x2 with 2x2 samples, 2x2, and one of no samples
CameraBuilders ==
    { CameraBuilder(2, F(2), 1, 2, Color(Q(1, 2), Q(7, 10), F(1))),
      CameraBuilder(1, Q(1, 2), 4, 1, Color(Q(1, 2), Q(7, 10), F(1))),
      CameraBuilder(2, F(1), 2, 2, Black),
      CameraBuilder(1, F(1), 0, 1, Black) }

\* the rays get_ray can return, in the order the camera sweeps them
CameraRays ==
    << Ray(Vec3(F(0), F(-5), F(0)), Vec3(F(0), F(1), F(0))),
       Ray(Vec3(F(0), F(-5), F(0)), Vec3(F(0), F(-1), F(0))),
       Ray(Vec3(F(0), F(-12), F(0)), Vec3(F(0), F(-1), F(0))),
       Ray(Vec3(F(0), F(9), F(0)), Vec3(F(0), F(1), F(0))),
       Ray(Vec3(F(0), F(9), F(0)), Vec3(F(0), F(-1), F(0))),
       Ray(Vec3(F(0), F(-8), F(0)), Vec3(F(0), F(1), F(0))),
       Ray(Vec3(F(8), F(-5), F(0)), Vec3(F(0), F(1), F(0))),
       Ray(Vec3(F(4), F(-5), F(0)), Vec3(F(0), F(1), F(0))) >>

\* the values a thread's generator yields, in order; every thread has its own
\* generator (thread_rng()), here the same cycle entered at a different place
DrawCycle ==
    << Draw(Vec3(F(0), F(-1), F(0)), F(1), F(0)),
       Draw(Vec3(F(0), F(1), F(0)), F(1), Q(1, 2)),
       Draw(Vec3(F(0), F(-1), F(0)), F(0), Q(1, 2)),
       Draw(Vec3(F(1), F(0), F(0)), F(1), F(0)),
       Draw(Vec3(F(0), F(-1), F(0)), F(1), Q(1, 2)) >>

\* the k-th value of worker w's generator
Stream(w, k) == DrawCycle[((2 * w + k) % Len(DrawCycle)) + 1]

\* Camera::get_ray: the ray through cell (s_i, s_j) of pixel (i, j), jittered
\* by the random offset u.rand; the camera geometry is not modelled, the ray
\* is the one of CameraRays that pixel, cell and jitter select
get_ray(cam, i, j, s_i, s_j, u) ==
    LET jitter == IF FLt(u.rand, Q(1, 4)) THEN 0 ELSE 1
        k == 2 * (j * cam.image_width + i) + s_i + 2 * s_j + jitter
    IN CameraRays[(k % Len(CameraRays)) + 1]

\* does the call on top of the stack draw random values (scatter of a
\* Lambertian, Metal or Dielectric and the pdf sampling after it)?
DrawsRandom(st, w) ==
    /\ Top(st.stack).depth > 0
    /\ With(ObjectListHit(w, Top(st.stack).r, RayT), LAMBDA record :
            /\ record.some
            /\ assert_finite(emitted(record.val.material, record.val))
            /\ record.val.material.kind \in {"Lambertian", "Metal", "Dielectric"})

RECURSIVE ray_color_run(_, _, _, _, _)
\* Camera::ray_color run to its return or panic by worker thread t, whose
\* generator stands at pos; gives the final state and the generator's position
ray_color_run(st, background, w, t, pos) ==
    IF ~RayColorRunning(st) THEN [st |-> st, pos |-> pos]
    ELSE IF st.ret.some THEN ray_color_run(ray_color_resume(st), background, w, t, pos)
    ELSE ray_color_run(ray_color_enter(st, background, w, Stream(t, pos)), background, w, t,
                       IF DrawsRandom(st, w) THEN pos + 1 ELSE pos)

\* the slip "no gamma correction": (256.0 * intensity.clamp(x)) as u8
GammaByteLinear(x) ==
    IF ~FLt(F(0), x) THEN 0
    ELSE IF x[2] = 0 \/ x[1] >= x[2] THEN 255
    ELSE Min(255, (256 * x[1]) \div x[2])

\* (256.0 * intensity.clamp(linear_to_gamma(x))) as u8: linear_to_gamma is the
\* square root of a positive x and 0.0 otherwise (NaN too), intensity is
\* [0, 0.999]; floor(256*sqrt(x)) is computed as floor(sqrt(floor(65536*x))),
\* floor(65536*x) in two steps of 256
GammaByte(x) ==
    IF ~FLt(F(0), x) THEN 0
    ELSE IF x[2] = 0 \/ x[1] >= x[2] THEN 255
    ELSE With(256 * ((256 * x[1]) \div x[2]) + (256 * ((256 * x[1]) % x[2])) \div x[2],
              LAMBDA m :
            Min(255, CHOOSE k \in 0..255 : k * k <= m /\ m < (k + 1) * (k + 1)))

\* Color::write_to_buf: the three bytes copied to out[..3]
write_to_buf(c) == <<GammaByte(c[1]), GammaByte(c[2]), GammaByte(c[3])>>

\* one pass of the body of the loops over s_i and s_j, by thread t: the new
\* pixel_color, the generator's position, and whether an assertion failed
SampleCell(cam, w, t, pos, i, j, s_i, s_j, pixel_color) ==
    With(get_ray(cam, i, j, s_i, s_j, Stream(t, pos)), LAMBDA ray :
    With(ray_color_run(RayColorCall(ray, cam.max_depth), cam.background, w, t, pos + 1),
         LAMBDA run :
        IF run.st.panicked
        THEN [panicked |-> TRUE, pos |-> run.pos, pixel_color |-> pixel_color,
              sample |-> Black]
        ELSE With(VAdd(pixel_color, run.st.ret.val), LAMBDA sum :
                [panicked |-> ~assert_finite(sum), pos |-> run.pos, pixel_color |-> sum,
                 sample |-> run.st.ret.val])))

\* the cells (s_i, s_j) in the order of the two loops
CellOf(cam, c) == <<c \div cam.sqrt_spp, c % cam.sqrt_spp>>
NumCells(cam) == cam.sqrt_spp * cam.sqrt_spp

RECURSIVE PixelLoop(_, _, _, _, _, _, _, _)
\* the loops of one pixel from cell c on
PixelLoop(cam, w, t, pos, i, j, c, pixel_color) ==
    IF c >= NumCells(cam)
    THEN [panicked |-> FALSE, pos |-> pos, pixel_color |-> pixel_color]
    ELSE With(SampleCell(cam, w, t, pos, i, j, CellOf(cam, c)[1], CellOf(cam, c)[2],
                         pixel_color), LAMBDA s :
            IF s.panicked THEN [panicked |-> TRUE, pos |-> s.pos, pixel_color |-> s.pixel_color]
            ELSE PixelLoop(cam, w, t, s.pos, i, j, c + 1, s.pixel_color))

\* the closure of one pixel, run from start to end by thread t
PixelRun(cam, w, t, pos, i, j) ==
    With(PixelLoop(cam, w, t, pos, i, j, 0, Black), LAMBDA l :
        [panicked |-> l.panicked, pos |-> l.pos,
         bytes |-> write_to_buf(VScale(l.pixel_color, cam.pixel_samples_scale))])

-----------------------------------------------------------------------------
(* camera.rs: Camera::render *)

\* the row chunks of a mutated render, 3 * image_height bytes each
RowChunkSizeByHeight(cam) == 3 * cam.image_height

\* 3 * image_width, the chunk size of the outer par_chunks_exact_mut
RowChunkSize(cam) == 3 * cam.image_width

\* the number of chunks of chunks_exact_mut: a remainder is left out
NumChunks(len, chunk_size) == len \div chunk_size

\* the pairs (j, i) the two enumerate() calls yield over a buffer of len bytes
Tasks(cam, len) ==
    { <<j, i>> : j \in 0..NumChunks(len, RowChunkSize(cam)) - 1,
                 i \in 0..NumChunks(RowChunkSize(cam), 3) - 1 }

\* the slot of a mutated render, which forgets the row
SlotStartNoRow(cam, j, i) == 3 * i

\* the slot of a mutated render, which takes the row for the column
SlotStartTransposed(cam, j, i) == i * RowChunkSize(cam) + 3 * j

\* where the chunk buf of pixel chunk i of row chunk j starts in the buffer
SlotStart(cam, j, i) == j * RowChunkSize(cam) + 3 * i

IdleWorker(pos) ==
    [pc |-> "idle", j |-> 0, i |-> 0, c |-> 0, pixel_color |-> Black, pos |-> pos]

\* what is known of the closure of one pixel: who runs it, where that thread's
\* generator stood, the cells traced, their radiance, the colour written
NoPixel ==
    [st |-> "none", by |-> 0, start |-> 0, cells |-> <<>>, samples |-> <<>>,
     color |-> Black]

\* where the generator of thread t stands (thread_rng() is thread-local)
GenPos(r, t) == r.worker[t].pos

InitRender ==
    /\ world = RcWorld
    /\ bvh = None
    /\ cast = None
    /\ list_rec = Pending
    /\ bvh_rec = Pending
    /\ panicked = ""
    /\ rc = RayColorIdle
    /\ rd = RenderIdle
    /\ app = AppIdle

\* render is entered: vec![0u8; image_height * image_width * 3]
RenderBegin(cb) ==
    /\ rd.pc = "idle"
    /\ rd' = With(CameraBuild(cb), LAMBDA cam :
              With(cam.image_height * cam.image_width * 3, LAMBDA len :
                [pc |-> "running", cb |-> cb, cam |-> cam,
                 buffer |-> [k \in 1..len |-> 0],
                 rows |-> {},
                 px |-> [task \in Tasks(cam, len) |-> NoPixel],
                 wrote |-> [k \in 1..len |-> <<>>],
                 worker |-> [t \in Workers |-> IdleWorker(0)],
                 failed |-> FALSE,
                 io |-> "none"]))
    /\ UNCHANGED <<world, bvh, cast, list_rec, bvh_rec, panicked, rc, app>>

\* the rows of a mutated render, which never starts the last row chunk
RowChunksButLast(r) ==
    IF r.pc = "running" THEN 0..NumChunks(Len(r.buffer), RowChunkSize(r.cam)) - 2 ELSE {}

\* the row chunks of the render in progress
RowChunks(r) ==
    IF r.pc = "running" THEN 0..NumChunks(Len(r.buffer), RowChunkSize(r.cam)) - 1 ELSE {}

\* the pixel chunks of the render in progress
PixelChunks(r) == IF r.pc = "running" THEN DOMAIN r.px ELSE {}

\* the closure of row chunk j starts: its pixel chunks can be picked up
StartRow(j) ==
    /\ rd.pc = "running"
    /\ j \notin rd.rows
    /\ rd' = [rd EXCEPT !.rows = @ \cup {j}]
    /\ UNCHANGED <<world, bvh, cast, list_rec, bvh_rec, panicked, rc, app>>

\* thread t picks up the closure of pixel chunk i of row chunk j:
\* let mut pixel_color = Color::new(0.0, 0.0, 0.0)
TakePixel(t, j, i) ==
    /\ rd.pc = "running"
    /\ rd.worker[t].pc = "idle"
    /\ j \in rd.rows
    /\ rd.px[<<j, i>>].st = "none"
    /\ rd' = [rd EXCEPT
                !.worker[t] = [pc |-> IF NumCells(rd.cam) = 0 THEN "write" ELSE "loop",
                               j |-> j, i |-> i, c |-> 0, pixel_color |-> Black,
                               pos |-> @.pos],
                !.px[<<j, i>>] = [NoPixel EXCEPT !.st = "run", !.by = t,
                                                 !.start = GenPos(rd, t)]]
    /\ UNCHANGED <<world, bvh, cast, list_rec, bvh_rec, panicked, rc, app>>

\* thread t runs the loop body for its next cell: get_ray, ray_color,
\* pixel_color += .., pixel_color.assert_finite(); a failed assertion (there or
\* inside ray_color) ends the closure by a panic, which the pool holds back
\* until the other closures are through
Sample(t) ==
    /\ rd.pc = "running"
    /\ rd.worker[t].pc = "loop"
    /\ LET wk == rd.worker[t]
           cell == CellOf(rd.cam, wk.c)
       IN rd' = With(SampleCell(rd.cam, world, t, GenPos(rd, t), wk.i, wk.j,
                                cell[1], cell[2], wk.pixel_color), LAMBDA s :
                  IF s.panicked
                  THEN [rd EXCEPT !.worker[t] = IdleWorker(s.pos),
                                  !.px[<<wk.j, wk.i>>].st = "failed",
                                  !.failed = TRUE]
                  ELSE [rd EXCEPT
                        !.worker[t] = [wk EXCEPT
                            !.pc = IF wk.c + 1 >= NumCells(rd.cam) THEN "write" ELSE "loop",
                            !.c = wk.c + 1,
                            !.pixel_color = s.pixel_color,
                            !.pos = s.pos],
                        !.px[<<wk.j, wk.i>>].cells = Append(@, cell),
                        !.px[<<wk.j, wk.i>>].samples = Append(@, s.sample)])
    /\ UNCHANGED <<world, bvh, cast, list_rec, bvh_rec, panicked, rc, app>>

\* thread t leaves the loops: (pixel_samples_scale * pixel_color).write_to_buf(buf)
WritePixel(t) ==
    /\ rd.pc = "running"
    /\ rd.worker[t].pc = "write"
    /\ LET wk == rd.worker[t]
       IN rd' = With(VScale(wk.pixel_color, rd.cam.pixel_samples_scale), LAMBDA color :
                With(write_to_buf(color), LAMBDA rgb :
                With(SlotStart(rd.cam, wk.j, wk.i), LAMBDA at0 :
                  [rd EXCEPT
                    !.buffer = [k \in DOMAIN rd.buffer |->
                                    IF k \in at0 + 1..at0 + 3 THEN rgb[k - at0]
                                    ELSE rd.buffer[k]],
                    !.wrote = [k \in DOMAIN rd.wrote |->
                                    IF k \in at0 + 1..at0 + 3
                                    THEN Append(rd.wrote[k], <<wk.j, wk.i>>)
                                    ELSE rd.wrote[k]],
                    !.px[<<wk.j, wk.i>>].st = "written",
                    !.px[<<wk.j, wk.i>>].color = color,
                    !.worker[t] = IdleWorker(wk.pos)])))
    /\ UNCHANGED <<world, bvh, cast, list_rec, bvh_rec, panicked, rc, app>>

AllWritten(r) == \A task \in DOMAIN r.px : r.px[task].st = "written"

\* the slip "image::save_buffer(..).unwrap()": a failed write panics
SaveOutcomeUnwrap(ok) == IF ok THEN "saved" ELSE "panicked"

\* image::save_buffer(..)?; Ok(()): an Err of save_buffer is returned by `?`,
\* otherwise render returns Ok(())
SaveOutcome(ok) == IF ok THEN "saved" ELSE "save_failed"

\* every closure has returned: image::save_buffer(..)?, then Ok(()); io is the
\* result of save_buffer, ok is whether the file could be written
Save(ok) ==
    /\ rd.pc = "running"
    /\ ~rd.failed
    /\ AllWritten(rd)
    /\ rd' = [rd EXCEPT !.pc = SaveOutcome(ok), !.io = IF ok THEN "ok" ELSE "err"]
    /\ UNCHANGED <<world, bvh, cast, list_rec, bvh_rec, panicked, rc, app>>

\* the panic of a closure leaves render once no closure is running: the buffer
\* is dropped and nothing is saved
Abort ==
    /\ rd.pc = "running"
    /\ rd.failed
    /\ \A t \in Workers : rd.worker[t].pc = "idle"
    /\ rd' = [rd EXCEPT !.pc = "panicked"]
    /\ panicked' = "assertion failed: v.is_finite()"
    /\ UNCHANGED <<world, bvh, cast, list_rec, bvh_rec, rc, app>>

NextRender ==
    \/ \E cb \in CameraBuilders : RenderBegin(cb)
    \/ \E j \in RowChunks(rd) : StartRow(j)
    \/ \E t \in Workers, task \in PixelChunks(rd) : TakePixel(t, task[1], task[2])
    \/ \E t \in Workers : Sample(t)
    \/ \E t \in Workers : WritePixel(t)
    \/ \E ok \in BOOLEAN : Save(ok)
    \/ Abort

SpecRender == InitRender /\ [][NextRender]_vars

-----------------------------------------------------------------------------
(* Claims about Camera::render *)

\* the first byte (counted from 0) of pixel (column i, row j) in a row-major
\* image of three bytes a pixel
PixelSlot(image_width, j, i) == 3 * (j * image_width + i)

\* the pixels (row j, column i) of an image
Pixels(image_width, image_height) ==
    { <<j, i>> : j \in 0..image_height - 1, i \in 0..image_width - 1 }

\* C2: under every scheduling of the row chunks and pixel chunks, every byte
\* of the buffer is written at most once, the bytes of the slot of pixel (i,j)
\* only by the task of that pixel, which one thread runs, so that no two tasks
\* write the same slot.
C2_SlotsWrittenOnce ==
    rd.pc # "idle" =>
        /\ \A k \in DOMAIN rd.wrote : Len(rd.wrote[k]) <= 1
        /\ \A k \in DOMAIN rd.wrote : \A n \in DOMAIN rd.wrote[k] :
                LET task == rd.wrote[k][n]
                IN /\ task \in DOMAIN rd.px
                   /\ rd.px[task].st = "written"
                   /\ rd.px[task].by \in Workers
                   /\ k - 1 \in PixelSlot(rd.cam.image_width, task[1], task[2])
                                ..PixelSlot(rd.cam.image_width, task[1], task[2]) + 2
        /\ \A task \in DOMAIN rd.px :
                rd.px[task].st = "written" =>
                    \A c \in 1..3 :
                        rd.wrote[PixelSlot(rd.cam.image_width, task[1], task[2]) + c]
                            = <<task>>

\* a 2x2 image saved after both threads wrote pixels of it
C2_Witness ==
    /\ rd.pc = "saved"
    /\ Cardinality(DOMAIN rd.px) = 4
    /\ \E a, b \in DOMAIN rd.px : rd.px[a].by # rd.px[b].by

RECURSIVE SequentialFrom(_, _, _, _, _)
\* the run of render in which thread 1 executes every pixel closure, one after
\* the other in row-major order, from pixel n on
SequentialFrom(cam, w, n, pos, buffer) ==
    IF n >= cam.image_width * cam.image_height
    THEN [panicked |-> FALSE, buffer |-> buffer]
    ELSE With(PixelRun(cam, w, 1, pos, n % cam.image_width, n \div cam.image_width),
              LAMBDA p :
            IF p.panicked THEN [panicked |-> TRUE, buffer |-> buffer]
            ELSE SequentialFrom(cam, w, n + 1, p.pos,
                    [k \in DOMAIN buffer |->
                        IF k \in 3 * n + 1..3 * n + 3 THEN p.bytes[k - 3 * n]
                        ELSE buffer[k]]))

RenderSequential(cam, w) ==
    SequentialFrom(cam, w, 0, 0, [k \in 1..cam.image_width * cam.image_height * 3 |-> 0])

\* C3: for a fixed scene, camera and fixed random streams of the worker
\* threads, a run of render that saves its image has in every buffer slot the
\* byte of the run that differs from it only in the order in which the
\* threads execute the pixels (here the run in which thread 1 executes them
\* all in row-major order).
C3_DeterministicPerSeed ==
    rd.pc = "saved" =>
        (~RenderSequential(rd.cam, world).panicked =>
            rd.buffer = RenderSequential(rd.cam, world).buffer)

\* the run the others are compared with: thread 1 executes every pixel
C3_SequentialRun ==
    /\ rd.pc = "saved"
    /\ \A task \in DOMAIN rd.px : rd.px[task].by = 1
    /\ rd.buffer = RenderSequential(rd.cam, world).buffer

\* C6: the buffer has image_width*image_height*3 bytes, there is one pixel
\* closure for every pixel, the colour of pixel (column i, row j) is written
\* as its three bytes to bytes 3*(j*image_width+i) .. 3*(j*image_width+i)+2,
\* the bytes of a pixel not yet written are untouched, and every pixel is
\* written when render returns.
C6_BufferRowMajor ==
    rd.pc # "idle" =>
        /\ Len(rd.buffer) = rd.cam.image_width * rd.cam.image_height * 3
        /\ DOMAIN rd.px = Pixels(rd.cam.image_width, rd.cam.image_height)
        /\ \A task \in DOMAIN rd.px : \A c \in 1..3 :
                LET k == PixelSlot(rd.cam.image_width, task[1], task[2]) + c
                IN /\ k \in DOMAIN rd.buffer
                   /\ rd.px[task].st = "written" =>
                        rd.buffer[k] = write_to_buf(rd.px[task].color)[c]
                   /\ rd.px[task].st # "written" =>
                        rd.buffer[k] = 0 /\ rd.wrote[k] = <<>>
        /\ rd.pc \in {"saved", "save_failed"} =>
                \A task \in DOMAIN rd.px : rd.px[task].st = "written"

\* an image of one column and two rows, saved with a byte that is not 0 in
\* its second row
C6_Witness ==
    /\ rd.pc = "saved"
    /\ rd.cam.image_width = 1
    /\ rd.cam.image_height = 2
    /\ \E k \in 4..6 : rd.buffer[k] # 0

RECURSIVE SumColors(_)
\* pixel_color after "pixel_color += sample" for each sample in turn
SumColors(samples) ==
    IF samples = <<>> THEN Black
    ELSE VAdd(SumColors(SubSeq(samples, 1, Len(samples) - 1)), samples[Len(samples)])

\* floor(sqrt(n))
FloorSqrt(n) == CHOOSE k \in 0..n : k * k <= n /\ n < (k + 1) * (k + 1)

\* C7: with N = floor(sqrt(samples_per_pixel)), a written pixel has traced
\* N*N rays, one for each cell (s_i, s_j) with 0 <= s_i, s_j < N, and the
\* colour gamma-corrected and written is the sum of their radiance scaled by
\* 1/(N*N).
C7_StratifiedSamples ==
    rd.pc # "idle" =>
        LET N == FloorSqrt(rd.cb.samples_per_pixel)
        IN \A task \in DOMAIN rd.px :
            rd.px[task].st = "written" =>
                LET p == rd.px[task]
                IN /\ Len(p.cells) = N * N
                   /\ Len(p.samples) = N * N
                   /\ { p.cells[k] : k \in DOMAIN p.cells } = (0..N - 1) \X (0..N - 1)
                   /\ p.color = VScale(SumColors(p.samples), FDiv(F(1), F(N * N)))
                   /\ \A c \in 1..3 :
                        rd.buffer[PixelSlot(rd.cam.image_width, task[1], task[2]) + c]
                            = write_to_buf(p.color)[c]

\* a pixel written from the four cells of a 2x2 grid, with a colour that is
\* not black
C7_Witness ==
    /\ rd.pc # "idle"
    /\ rd.cb.samples_per_pixel = 4
    /\ \E task \in DOMAIN rd.px :
            /\ rd.px[task].st = "written"
            /\ Len(rd.px[task].cells) = 4
            /\ rd.px[task].color # Black
            /\ SumColors(rd.px[task].samples) # rd.px[task].color

\* C10: no pixel byte derived from a colour that is not finite is written to
\* the buffer: the colour of every pixel written is finite.
C10_NoNonFiniteWritten ==
    rd.pc # "idle" =>
        \A task \in DOMAIN rd.px :
            rd.px[task].st = "written" => assert_finite(rd.px[task].color)

\* with at least one sample a pixel (sqrt_spp >= 1) every pixel written has a
\* finite colour
C10_FiniteWhenSampled ==
    (rd.pc # "idle" /\ rd.cam.sqrt_spp >= 1) =>
        \A task \in DOMAIN rd.px :
            rd.px[task].st = "written" => assert_finite(rd.px[task].color)

-----------------------------------------------------------------------------
(* Calls of the functions of interval.rs and aabb.rs *)

\* the points from_points is called with: corners of spheres and quads, some
\* of them equal on one, two or three axes
CallPoints ==
    { Vec3(F(0), F(0), F(0)), Vec3(F(1), F(1), F(1)), Vec3(F(1), F(0), F(0)),
      Vec3(F(0), F(2), F(2)), Vec3(F(3), F(1), F(-1)), Vec3(F(-1), Q(1, 2), F(2)) }

\* the intervals from_points passes to AxisAlignedBoundingBox::new (min <= max)
CallOrdered ==
    { Interval(F(0), F(0)), Interval(F(0), F(1)), Interval(F(-1), F(3)),
      Interval(Q(1, 2), Q(1, 2)) }

\* Interval::UNIVERSE
IntervalUNIVERSE == Interval(NEG_INFINITY, INFINITY)

\* the intervals Interval::merge is called with
CallIntervals ==
    CallOrdered \cup
    { IntervalEMPTY, IntervalUNIVERSE, Interval(F(2), F(1)), Interval(F(0), INFINITY),
      Interval(NEG_INFINITY, F(-1)), Interval(Q(1, 1000), INFINITY) }

\* the result of a call
Called(op, args, out) == [op |-> op, args |-> args, out |-> out]

\* the calls that return a box
BoxOps == {"from_points", "new", "aabb_merge"}

\* AxisAlignedBoundingBox::from_points(a, b)
CallFromPoints(a, b) ==
    /\ app.op = "idle"
    /\ app' = Called("from_points", <<a, b>>, from_points(a, b))
    /\ UNCHANGED <<world, bvh, cast, list_rec, bvh_rec, panicked, rc, rd>>

\* AxisAlignedBoundingBox::new(x, y, z)
CallNew(x, y, z) ==
    /\ app.op = "idle"
    /\ app' = Called("new", <<x, y, z>>, AabbNew(x, y, z))
    /\ UNCHANGED <<world, bvh, cast, list_rec, bvh_rec, panicked, rc, rd>>

\* self.merge(other) on a box a constructor returned
CallAabbMerge(a, b) ==
    /\ app.op \in {"from_points", "new"}
    /\ app' = Called("aabb_merge", <<app.out, from_points(a, b)>>,
                     AabbMerge(app.out, from_points(a, b)))
    /\ UNCHANGED <<world, bvh, cast, list_rec, bvh_rec, panicked, rc, rd>>

\* self.longest_axis() on the box the last call returned
CallLongestAxis ==
    /\ app.op \in BoxOps
    /\ app' = Called("longest_axis", <<app.out>>, longest_axis(app.out))
    /\ UNCHANGED <<world, bvh, cast, list_rec, bvh_rec, panicked, rc, rd>>

\* a.merge(b) of two intervals
CallIntervalMerge(a, b) ==
    /\ app.op = "idle"
    /\ app' = Called("interval_merge", <<a, b>>, IntervalMerge(a, b))
    /\ UNCHANGED <<world, bvh, cast, list_rec, bvh_rec, panicked, rc, rd>>

-----------------------------------------------------------------------------
(* Calls of Color::write_to_buf *)

\* linear_to_gamma, for the components whose square root is rational
linear_to_gamma(linear_component) ==
    IF FLt(F(0), linear_component) THEN FSqrt(linear_component) ELSE F(0)

\* Interval::clamp
clamp(i, x) == IF FLt(x, i.min) THEN i.min ELSE IF FLt(i.max, x) THEN i.max ELSE x

\* x as u8: towards zero, saturating, 0 for a NaN
AsU8(a) ==
    IF IsNan(a) THEN 0
    ELSE IF a[1] < 0 THEN 0
    ELSE IF a[2] = 0 THEN 255
    ELSE Min(255, a[1] \div a[2])

\* Interval::new(0.000, 0.999)
intensity == Interval(F(0), Q(999, 1000))

\* the components of the colours written: 0, 1, values between them with a
\* rational square root, values beyond them and values that are not finite
CallComponents ==
    { F(0), F(1), Q(1, 4), Q(9, 16), Q(998001, 1000000), Q(64516, 65536), F(4), F(-1),
      Q(1, 65536), INFINITY, NAN }

\* self.write_to_buf(out)
CallWriteToBuf(c) ==
    /\ app.op = "idle"
    /\ app' = Called("write_to_buf", <<c>>, write_to_buf(c))
    /\ UNCHANGED <<world, bvh, cast, list_rec, bvh_rec, panicked, rc, rd>>

\* the caller is done with the result
CallDone ==
    /\ app.op # "idle"
    /\ app' = AppIdle
    /\ UNCHANGED <<world, bvh, cast, list_rec, bvh_rec, panicked, rc, rd>>

InitCalls ==
    /\ world = ObjectListDefault
    /\ bvh = None
    /\ cast = None
    /\ list_rec = Pending
    /\ bvh_rec = Pending
    /\ panicked = ""
    /\ rc = RayColorIdle
    /\ rd = RenderIdle
    /\ app = AppIdle

NextCalls ==
    \/ \E a, b \in CallPoints : CallFromPoints(a, b)
    \/ \E x, y, z \in CallOrdered : CallNew(x, y, z)
    \/ \E a, b \in CallPoints : CallAabbMerge(a, b)
    \/ CallLongestAxis
    \/ \E a, b \in CallIntervals : CallIntervalMerge(a, b)
    \/ \E r, g, b \in CallComponents : CallWriteToBuf(Color(r, g, b))
    \/ CallDone

SpecCalls == InitCalls /\ [][NextCalls]_vars

-----------------------------------------------------------------------------
(* Claims about intervals, boxes and colours *)

\* the three axes of a box
Axes(b) == <<b.x, b.y, b.z>>

\* every axis of the box is at least 0.0001 long
MinimumSize(b) == \A k \in 1..3 : FLe(Q(1, 10000), size(Axes(b)[k]))

C13_WitnessMerge ==
    /\ app.op = "aabb_merge"
    /\ MinimumSize(app.args[1])
    /\ MinimumSize(app.args[2])
    /\ app.out # app.args[1]
    /\ app.out # app.args[2]

\* C14: I.merge(EMPTY) and EMPTY.merge(I) have the min and the max of I, for
\* every interval I.
C14_EmptyIsMergeIdentity ==
    app.op = "interval_merge" =>
        /\ app.args[2] = Interval(INFINITY, NEG_INFINITY) =>
                (app.out.min = app.args[1].min /\ app.out.max = app.args[1].max)
        /\ app.args[1] = Interval(INFINITY, NEG_INFINITY) =>
                (app.out.min = app.args[2].min /\ app.out.max = app.args[2].max)

\* [0, 1] merged with EMPTY
C14_Witness ==
    /\ app.op = "interval_merge"
    /\ app.args = <<Interval(F(0), F(1)), Interval(INFINITY, NEG_INFINITY)>>
    /\ app.out = Interval(F(0), F(1))

\* floor(256 * clamp(gamma(x), 0, 0.999)), gamma the square root of a positive
\* x and 0 otherwise
FloorByte(x) == AsU8(FMul(F(256), clamp(intensity, linear_to_gamma(x))))

\* C15: write_to_buf writes for every component x the byte
\* floor(256 * clamp(gamma(x), 0, 0.999)), which lies in 0..255; it is 255, the
\* largest byte, for x = 1.0 and 0 for every x that is not positive.
C15_GammaClampByte ==
    app.op = "write_to_buf" =>
        \A k \in 1..3 :
            /\ app.out[k] = FloorByte(app.args[1][k])
            /\ app.out[k] \in 0..255
            /\ app.args[1][k] = F(1) => app.out[k] = 255
            /\ FLe(app.args[1][k], F(0)) => app.out[k] = 0

\* the colour (1.0, 0.25, 0.0) written as 255, 128, 0
C15_Witness ==
    /\ app.op = "write_to_buf"
    /\ app.args[1] = Color(F(1), Q(1, 4), F(0))
    /\ app.out = <<255, 128, 0>>

\* the first axis, in the order x, y, z, that is as long as the longest
FirstLongest(b) ==
    CHOOSE k \in 0..2 :
        /\ \A m \in 0..2 : FLe(size(Axes(b)[m + 1]), size(Axes(b)[k + 1]))
        /\ \A m \in 0..2 : m < k => FLt(size(Axes(b)[m + 1]), size(Axes(b)[k + 1]))

\* C18: longest_axis returns the index of an axis of maximum extent, the first
\* of them in the order x (0), y (1), z (2) when several are as long.
C18_LongestAxisFirstOfTies ==
    app.op = "longest_axis" =>
        /\ \A m \in 0..2 : FLe(size(Axes(app.args[1])[m + 1]),
                               size(Axes(app.args[1])[app.out + 1]))
        /\ app.out = FirstLongest(app.args[1])

\* longest_axis returns the index of an axis of maximum extent, the last of
\* them in the order x, y, z when several are as long
C18_LongestAxisLastOfTies ==
    app.op = "longest_axis" =>
        /\ \A m \in 0..2 : FLe(size(Axes(app.args[1])[m + 1]),
                               size(Axes(app.args[1])[app.out + 1]))
        /\ \A m \in 0..2 : m > app.out =>
                FLt(size(Axes(app.args[1])[m + 1]), size(Axes(app.args[1])[app.out + 1]))

\* the cube from (0,0,0) to (1,1,1), all axes equally long: axis 2 is returned
C18_Witness ==
    /\ app.op = "longest_axis"
    /\ app.args[1] = from_points(Vec3(F(0), F(0), F(0)), Vec3(F(1), F(1), F(1)))
    /\ app.out = 2

-----------------------------------------------------------------------------
(* Claims about the object list and the construction of the BVH *)

\* C16: after any sequence of ObjectList::add calls the cached box of the list
\* is the merge of the boxes of all objects added so far; ObjectList::condense
\* on a non-empty list leaves exactly one object, the BVH root, whose box is
\* the cached box of the list (the box recomputed from all the objects); an
\* object added after a condense is again merged into the cached box.
C16_CachedBoxIsMerge ==
    /\ [](world.aabb = MergeBoxes(AabbEMPTY, ListLeaves(world.objects)))
    /\ [](world.aabb = MergeBoxes(AabbEMPTY, world.objects))
    /\ [][(Condense /\ world.objects # <<>>)
            => (/\ Len(world'.objects) = 1
                /\ world'.objects[1].kind = "BvhNode"
                /\ world'.objects[1].bbox = MergeBoxes(AabbEMPTY, world.objects)
                /\ world'.aabb = world'.objects[1].bbox)]_vars
    /\ [][(\E o \in SceneObjects : Add(o) /\ world'.objects = Append(world.objects, o))
            => world'.aabb = MergeBoxes(AabbEMPTY, world'.objects)]_vars

\* a condensed list to which a further object was added, enlarging the box
C16_Witness ==
    /\ Len(world.objects) = 2
    /\ world.objects[1].kind = "BvhNode"
    /\ world.objects[2].kind = "Sphere"
    /\ world.aabb # world.objects[1].bbox

\* the hit record of the node of one object against that of the object
SameT(node_rec, object_rec) ==
    /\ object_rec.some
    /\ node_rec.val.t = object_rec.val.t
    /\ node_rec.val.material = object_rec.val.material

C19_WitnessPair ==
    /\ bvh.some
    /\ Len(world.objects) = 2
    /\ world.objects[1] # world.objects[2]
    /\ bvh.val.left.kind = "Sphere"

RECURSIVE BuiltFrom(_, _)
\* the objects a node built from k objects holds, left to right
BuiltFrom(node, k) ==
    IF k = 1 THEN <<node.left>>
    ELSE IF k = 2 THEN <<node.left, node.right>>
    ELSE BuiltFrom(node.left, k \div 2) \o BuiltFrom(node.right, k - (k \div 2))

Occurrences(objects, o) == Cardinality({ i \in 1..Len(objects) : objects[i] = o })

\* C20: a BvhNode built from n >= 3 objects holds the first floor(n/2) of the
\* objects, in the order of the minimum of their boxes on the longest axis of
\* the merged box, in its left subtree and the rest in its right subtree: the
\* two subtrees are BvhNodes holding together exactly the objects given, and
\* the minimum on that axis of every object on the left is less than or equal
\* to that of every object on the right.
C20_SortedSplit ==
    (bvh.some /\ Len(world.objects) >= 3) =>
        LET n == Len(world.objects)
            axis == longest_axis(MergeBoxes(AabbEMPTY, world.objects))
            lhs == BuiltFrom(bvh.val.left, n \div 2)
            rhs == BuiltFrom(bvh.val.right, n - (n \div 2))
        IN /\ bvh.val.left.kind = "BvhNode"
           /\ bvh.val.right.kind = "BvhNode"
           /\ Len(lhs) = n \div 2
           /\ Len(rhs) = n - (n \div 2)
           /\ \A i \in 1..n :
                Occurrences(lhs \o rhs, world.objects[i])
                    = Occurrences(world.objects, world.objects[i])
           /\ \A i \in 1..Len(lhs), j \in 1..Len(rhs) :
                FLe(AxisMin(lhs[i], axis), AxisMin(rhs[j], axis))

\* three objects given in an order that is not the sorted one
C20_Witness ==
    /\ bvh.some
    /\ Len(world.objects) = 3
    /\ LET axis == longest_axis(MergeBoxes(AabbEMPTY, world.objects))
       IN /\ FLt(AxisMin(world.objects[3], axis), AxisMin(world.objects[1], axis))
          /\ bvh.val.left.left = world.objects[3]

-----------------------------------------------------------------------------
(* Camera::render under fair scheduling of the thread pool *)

\* thread t is inside a pixel closure, in the sample loops or about to write:
\* ENABLED <<Sample(t) \/ WritePixel(t)>>_vars
ClosureEnabled(t) == rd.pc = "running" /\ rd.worker[t].pc \in {"loop", "write"}

\* thread t has run a pass of the sample loops (or panicked in it) or written
\* its pixel: the step <<Sample(t) \/ WritePixel(t)>>_vars, which alone changes
\* worker[t] while t is inside a closure
ClosureStep(t) == ClosureEnabled(t) /\ rd'.worker[t] # rd.worker[t]

\* rayon runs every closure it was given and every thread of the pool keeps
\* taking work; a thread inside a closure runs on (weak fairness of
\* Sample(t) \/ WritePixel(t), with its ENABLED written out); save_buffer
\* returns; a held-back panic is resumed
FairRender ==
    /\ SpecRender
    /\ WF_vars(\E j \in RowChunks(rd) : StartRow(j))
    /\ \A t \in Workers :
            WF_vars(\E task \in PixelChunks(rd) : TakePixel(t, task[1], task[2]))
    /\ \A t \in Workers : []<>(~ClosureEnabled(t)) \/ []<><<ClosureStep(t)>>_vars
    /\ WF_vars(\E ok \in BOOLEAN : Save(ok))
    /\ WF_vars(Abort)

-----------------------------------------------------------------------------
(* Claims about what render changes, how it ends and what it returns *)

\* the pixel whose closure thread t is running
PixelOf(t) == <<rd.worker[t].j, rd.worker[t].i>>

\* the bytes of the buffer (counted from 1) of the slot of a pixel
SlotBytes(task) ==
    PixelSlot(rd.cam.image_width, task[1], task[2]) + 1
        ..PixelSlot(rd.cam.image_width, task[1], task[2]) + 3

\* what a step of thread t on the pixel task leaves alone
WorkerFrame(t, task) ==
    /\ world' = world
    /\ bvh' = bvh
    /\ rd'.cam = rd.cam
    /\ rd'.cb = rd.cb
    /\ rd'.rows = rd.rows
    /\ \A u \in Workers \ {t} : rd'.worker[u] = rd.worker[u]
    /\ DOMAIN rd'.px = DOMAIN rd.px
    /\ \A other \in DOMAIN rd.px \ {task} : rd'.px[other] = rd.px[other]
    /\ DOMAIN rd'.buffer = DOMAIN rd.buffer
    /\ \A k \in DOMAIN rd.buffer \ SlotBytes(task) :
            rd'.buffer[k] = rd.buffer[k] /\ rd'.wrote[k] = rd.wrote[k]

\* C11: throughout render every step of a worker thread leaves the scene, the
\* BVH and the camera unchanged; it changes only the thread's own generator
\* and pixel accumulator, the record of its own pixel, and (when it writes)
\* the bytes of the buffer slot of that pixel; a step that does not write
\* leaves the whole buffer unchanged.
C11_WorkerStepFrame ==
    [][/\ \A t \in Workers : \A task \in PixelChunks(rd) :
            TakePixel(t, task[1], task[2])
                => (WorkerFrame(t, task) /\ rd'.buffer = rd.buffer)
       /\ \A t \in Workers : Sample(t) => (WorkerFrame(t, PixelOf(t)) /\ rd'.buffer = rd.buffer)
       /\ \A t \in Workers : WritePixel(t) => WorkerFrame(t, PixelOf(t))
       /\ (rd.pc = "running" /\ rd'.pc # "idle")
            => (world' = world /\ bvh' = bvh /\ rd'.cam = rd.cam)]_vars

\* in a 2x2 image one thread is in the loops of its pixel while the other is
\* about to write one, a pixel of the second column having been written
C11_Witness ==
    /\ rd.pc = "running"
    /\ Cardinality(DOMAIN rd.px) = 4
    /\ rd.px[<<0, 1>>].st = "written"
    /\ \E t, u \in Workers : rd.worker[t].pc = "loop" /\ rd.worker[u].pc = "write"

\* C12: when image::save_buffer fails, render returns the error (Err) and does
\* not panic, and it does so only after every pixel was written; when
\* save_buffer succeeds render returns Ok; a panic of render comes from a
\* failed assertion of a pixel closure, before the buffer is saved.
C12_SaveErrorReturned ==
    rd.pc # "idle" =>
        /\ rd.io = "err" => (rd.pc = "save_failed" /\ panicked = "" /\ AllWritten(rd))
        /\ rd.io = "ok" => (rd.pc = "saved" /\ panicked = "" /\ AllWritten(rd))
        /\ rd.pc = "save_failed" => rd.io = "err"
        /\ rd.pc = "saved" => rd.io = "ok"
        /\ rd.pc = "panicked" => (rd.io = "none" /\ rd.failed)

\* the write of a finished 2x2 image failed
C12_Witness ==
    /\ rd.pc = "save_failed"
    /\ rd.io = "err"
    /\ Cardinality(DOMAIN rd.px) = 4

RenderReturned == rd.pc \in {"saved", "save_failed", "panicked"}

\* every pixel closure is through, or one has panicked
ClosuresThrough == rd.pc # "idle" /\ (AllWritten(rd) \/ rd.failed)

\* C17: under fair scheduling a render that was started returns, and unless an
\* assertion failed every pixel is written before it does: nothing but a
\* failed assertion leaves a pixel unwritten, and a pixel that was picked up is
\* never given back.
C17_RenderCompletes ==
    /\ (rd.pc = "running") ~> RenderReturned
    /\ (rd.pc = "running") ~> ClosuresThrough
    /\ [](RenderReturned => (AllWritten(rd) \/ (rd.failed /\ rd.pc = "panicked")))
    /\ [][rd.pc = "running" =>
            \A task \in DOMAIN rd.px :
                /\ rd.px[task].st = "written" => rd'.px[task].st = "written"
                /\ rd.px[task].st # "none" => rd'.px[task].st # "none"]_vars

\* a 2x2 image of which the threads wrote every pixel between them, returned
C17_Witness ==
    /\ RenderReturned
    /\ Cardinality(DOMAIN rd.px) = 4
    /\ AllWritten(rd)
    /\ \E a, b \in DOMAIN rd.px : rd.px[a].by # rd.px[b].by

\* a render ended by the panic of a pixel closure, with pixels left unwritten
C17_WitnessPanic ==
    /\ rd.pc = "panicked"
    /\ ~AllWritten(rd)

-----------------------------------------------------------------------------
(* Calls of the functions of object.rs, bvh.rs, material.rs and camera.rs *)

\* the spheres Sphere::hit is called on
CallSpheres ==
    { SphereNew(Vec3(F(0), F(0), F(0)), F(1), Lambertian(splat(Q(1, 2)))),
      SphereNew(Vec3(F(0), F(0), F(0)), F(2), Dielectric(Q(3, 2))) }

\* rays along x: through the centre from outside and from inside, tangent to
\* the unit sphere, past both spheres, away from them, and one of length 2
CallRays ==
    { Ray(Vec3(F(-5), F(0), F(0)), Vec3(F(1), F(0), F(0))),
      Ray(Vec3(F(0), F(0), F(0)), Vec3(F(1), F(0), F(0))),
      Ray(Vec3(F(-5), F(1), F(0)), Vec3(F(1), F(0), F(0))),
      Ray(Vec3(F(-5), F(3), F(0)), Vec3(F(1), F(0), F(0))),
      Ray(Vec3(F(5), F(0), F(0)), Vec3(F(1), F(0), F(0))),
      Ray(Vec3(F(-5), F(0), F(0)), Vec3(F(2), F(0), F(0))) }

\* the search intervals: the one of ray_color, and some that end at, before
\* or between the roots
CallRayIntervals ==
    { RayT, Interval(F(0), F(6)), Interval(F(0), F(4)), Interval(F(5), F(7)),
      Interval(F(4), F(6)), Interval(F(0), F(1)), Interval(F(7), F(9)) }

\* self.hit(r, ray_t) on a sphere
CallSphereHit(s, r, ray_t) ==
    /\ app.op = "idle"
    /\ SqrtExact(SphereDiscriminant(s, r))
    /\ app' = Called("sphere_hit", <<s, r, ray_t>>, SphereHit(s, r, ray_t))
    /\ UNCHANGED <<world, bvh, cast, list_rec, bvh_rec, panicked, rc, rd>>

\* Vec3::cross
cross(a, b) ==
    <<FSub(FMul(a[2], b[3]), FMul(a[3], b[2])),
      FSub(FMul(a[3], b[1]), FMul(a[1], b[3])),
      FSub(FMul(a[1], b[2]), FMul(a[2], b[1]))>>

\* Triangle::new
TriangleNew(a, b, c, material) ==
    [kind |-> "Triangle", a |-> a, b |-> b, c |-> c, material |-> material,
     aabb |-> AabbMerge(from_points(a, b), from_points(b, c))]

\* the slip "u + v > 1.0 is not tested"
TriangleHitNoSum(tr, r, ray_t) ==
    With(VSub(tr.b, tr.a), LAMBDA e1 :
    With(VSub(tr.c, tr.a), LAMBDA e2 :
    With(cross(r.direction, e2), LAMBDA r_cross_e2 :
    With(dot(e1, r_cross_e2), LAMBDA det :
        IF FLt(FAbs(det), Q(1, 100000000)) THEN None
        ELSE With(FRecip(det), LAMBDA inv_det :
             With(VSub(r.origin, tr.a), LAMBDA s :
             With(FMul(inv_det, dot(s, r_cross_e2)), LAMBDA u :
                IF ~(FLe(F(0), u) /\ FLe(u, F(1))) THEN None
                ELSE With(cross(s, e1), LAMBDA s_cross_e1 :
                     With(FMul(inv_det, dot(r.direction, s_cross_e1)), LAMBDA v :
                        IF FLt(v, F(0)) THEN None
                        ELSE With(FMul(inv_det, dot(e2, s_cross_e1)), LAMBDA t :
                                IF contains(ray_t, t)
                                THEN Some(HitRecordNew(r, t, cross(e1, e2), tr.material))
                                ELSE None))))))))))

\* Triangle::hit (Moeller-Trumbore)
TriangleHit(tr, r, ray_t) ==
    With(VSub(tr.b, tr.a), LAMBDA e1 :
    With(VSub(tr.c, tr.a), LAMBDA e2 :
    With(cross(r.direction, e2), LAMBDA r_cross_e2 :
    With(dot(e1, r_cross_e2), LAMBDA det :
        IF FLt(FAbs(det), Q(1, 100000000)) THEN None
        ELSE With(FRecip(det), LAMBDA inv_det :
             With(VSub(r.origin, tr.a), LAMBDA s :
             With(FMul(inv_det, dot(s, r_cross_e2)), LAMBDA u :
                IF ~(FLe(F(0), u) /\ FLe(u, F(1))) THEN None
                ELSE With(cross(s, e1), LAMBDA s_cross_e1 :
                     With(FMul(inv_det, dot(r.direction, s_cross_e1)), LAMBDA v :
                        IF FLt(v, F(0)) \/ FLt(F(1), FAdd(u, v)) THEN None
                        ELSE With(FMul(inv_det, dot(e2, s_cross_e1)), LAMBDA t :
                                IF contains(ray_t, t)
                                THEN Some(HitRecordNew(r, t, cross(e1, e2), tr.material))
                                ELSE None))))))))))

\* the triangles Triangle::hit is called on: one in the plane z = 0, one tilted
CallTriangles ==
    { TriangleNew(Vec3(F(0), F(0), F(0)), Vec3(F(1), F(0), F(0)), Vec3(F(0), F(1), F(0)),
                  Lambertian(splat(Q(1, 2)))),
      TriangleNew(Vec3(F(0), F(0), F(0)), Vec3(F(2), F(0), F(0)), Vec3(F(0), F(2), F(1)),
                  DiffuseLight(splat(F(4)))) }

\* where the rays at the triangles start: above the inside, the outside, the
\* edges and the corners of the first triangle, below it, and in its plane
CallTriangleOrigins ==
    { Vec3(Q(1, 4), Q(1, 4), F(1)), Vec3(Q(3, 4), Q(3, 4), F(1)), Vec3(Q(-1, 4), Q(1, 4), F(1)),
      Vec3(Q(1, 4), Q(-1, 4), F(1)), Vec3(Q(1, 2), Q(1, 2), F(1)), Vec3(F(0), F(0), F(1)),
      Vec3(F(1), F(0), F(1)), Vec3(Q(1, 4), Q(1, 4), F(-1)), Vec3(F(-1), Q(1, 4), F(0)) }

\* their directions: down, up, along the plane z = 0, and all but along it
\* (the determinant is 1e-9 for the first triangle)
CallTriangleDirections ==
    { Vec3(F(0), F(0), F(-1)), Vec3(F(0), F(0), F(1)), Vec3(F(1), F(0), F(0)),
      Vec3(F(1), F(0), Q(-1, 1000000000)) }

CallTriangleIntervals ==
    { RayT, Interval(F(0), F(1)), Interval(F(0), Q(1, 2)), Interval(F(2), F(3)) }

\* self.hit(r, ray_t) on a triangle
CallTriangleHit(tr, r, ray_t) ==
    /\ app.op = "idle"
    /\ app' = Called("triangle_hit", <<tr, r, ray_t>>, TriangleHit(tr, r, ray_t))
    /\ UNCHANGED <<world, bvh, cast, list_rec, bvh_rec, panicked, rc, rd>>

\* the parameters t and the outward normals HitRecord::new is called with:
\* along the ray, against it, across it, and one that is not a unit vector
CallTs == { F(0), Q(1, 2), F(1), F(4) }

CallNormals ==
    { Vec3(F(1), F(0), F(0)), Vec3(F(-1), F(0), F(0)), Vec3(F(0), F(1), F(0)),
      Vec3(F(1), F(1), F(0)), Vec3(F(-2), F(0), F(1)) }

\* HitRecord::new(r, t, outward_normal, material)
CallHitRecordNew(r, t, outward_normal, material) ==
    /\ app.op = "idle"
    /\ app' = Called("hit_record_new", <<r, t, outward_normal>>,
                     HitRecordNew(r, t, outward_normal, material))
    /\ UNCHANGED <<world, bvh, cast, list_rec, bvh_rec, panicked, rc, rd>>

\* glass of refraction index 4/3
CallDielectrics == { Dielectric(Q(4, 3)) }

\* the directions of the rays that meet the surface y = 0 at the origin: at
\* an angle (sine 4/5) and head-on
CallIncoming == { Vec3(F(4), F(-3), F(0)), Vec3(F(0), F(-5), F(0)) }

\* the outward normal there: the ray enters, or it leaves
CallSurfaceNormals == { Vec3(F(0), F(1), F(0)), Vec3(F(0), F(-1), F(0)) }

\* the values of random_double() the reflectance is compared with
CallRands == { F(0), Q(99, 100) }

\* m.scatter(r_in, rec) of a Dielectric, rec the record of r_in at t = 1
CallDielectricScatter(m, d, outward_normal, rand) ==
    /\ app.op = "idle"
    /\ app' = With(Ray(VNeg(d), d), LAMBDA r_in :
              With(HitRecordNew(r_in, F(1), outward_normal, m), LAMBDA rec :
                Called("dielectric_scatter", <<m, r_in, rec, rand>>,
                       DielectricScatter(m, r_in, rec, Draw(Vec3(F(1), F(0), F(0)), F(0), rand)))))
    /\ UNCHANGED <<world, bvh, cast, list_rec, bvh_rec, panicked, rc, rd>>

\* ---------------------------------------------------------------------------
\* Camera::get_ray with its random draws spelled out
\* ---------------------------------------------------------------------------

\* the values utils::random_double returns: numbers of [0, 1)
RandomDoubles == { F(0), Q(1, 4), Q(1, 2), Q(3, 4) }

\* the largest number of points random_in_unit_disk rejects before it accepts
MaxRejects == 1

\* Vec3::random_in_unit_disk: draws the points (random_double(),
\* random_double(), 0) until one has length_squared < 1; ds is the stream of
\* the values random_double returns, and the result holds the accepted point
\* and the number of values consumed (None when the stream ends first)
RECURSIVE DiskLoop(_, _)
DiskLoop(ds, pos) ==
    IF pos + 1 > Len(ds) THEN None
    ELSE LET p == Vec3(ds[pos], ds[pos + 1], F(0))
         IN IF FLt(length_squared(p), F(1))
            THEN Some([p |-> p, used |-> pos + 1])
            ELSE DiskLoop(ds, pos + 2)

random_in_unit_disk(ds) == DiskLoop(ds, 1)

\* the fields of Camera that get_ray reads
LensCamera(center, pixel00_loc, pixel_delta_u, pixel_delta_v, defocus_angle, defocus_disk_u, defocus_disk_v, recip_sqrt_spp) ==
    [center |-> center, pixel00_loc |-> pixel00_loc,
     pixel_delta_u |-> pixel_delta_u, pixel_delta_v |-> pixel_delta_v,
     defocus_angle |-> defocus_angle, defocus_disk_u |-> defocus_disk_u,
     defocus_disk_v |-> defocus_disk_v, recip_sqrt_spp |-> recip_sqrt_spp]

\* Camera::sample_square_stratified with the two values it draws
sample_square_stratified(cam, s_i, s_j, d1, d2) ==
    <<FSub(FMul(FAdd(F(s_i), d1), cam.recip_sqrt_spp), Q(1, 2)),
      FSub(FMul(FAdd(F(s_j), d2), cam.recip_sqrt_spp), Q(1, 2))>>

\* Camera::defocus_disk_sample for the point p of the unit disk
defocus_disk_sample(cam, p) ==
    VAdd(VAdd(cam.center, VScale(cam.defocus_disk_u, p[1])),
         VScale(cam.defocus_disk_v, p[2]))

\* the jittered pixel position of Camera::get_ray
pixel_sample(cam, i, j, offset) ==
    VAdd(VAdd(cam.pixel00_loc, VScale(cam.pixel_delta_u, FAdd(F(i), offset[1]))),
         VScale(cam.pixel_delta_v, FAdd(F(j), offset[2])))

\* Camera::get_ray: d1 and d2 are the draws of sample_square_stratified and
\* ds the draws of random_in_unit_disk, which is only called when
\* defocus_angle > 0
GetRayOrigin(cam, ds) ==
    IF FLe(cam.defocus_angle, F(0)) THEN cam.center
    ELSE defocus_disk_sample(cam, random_in_unit_disk(ds).val.p)

CameraGetRay(cam, i, j, s_i, s_j, d1, d2, ds) ==
    LET origin == GetRayOrigin(cam, ds)
    IN Ray(origin,
           VSub(pixel_sample(cam, i, j, sample_square_stratified(cam, s_i, s_j, d1, d2)),
                origin))

\* cameras as CameraBuilder::build leaves them for look_from (0,0,0), look_at
\* (0,0,-1), vup (0,1,0), vfov 90, a 2 x 2 image, 4 samples per pixel and
\* focus_dist 2: a pinhole (defocus_angle 0, defocus radius 0) and a thin lens
\* (defocus_angle 28, defocus radius 2 * tan(14 degrees) rounded to 1/2)
LensCameras ==
    { LensCamera(Vec3(F(0), F(0), F(0)), Vec3(F(-1), F(1), F(-2)),
                 Vec3(F(2), F(0), F(0)), Vec3(F(0), F(-2), F(0)),
                 c[1], Vec3(c[2], F(0), F(0)), Vec3(F(0), c[2], F(0)), Q(1, 2)) :
        c \in { <<F(0), F(0)>>, <<F(28), Q(1, 2)>> } }

\* the streams of draws random_in_unit_disk consumes whole
DiskDraws(cam) ==
    IF FLe(cam.defocus_angle, F(0)) THEN { <<>> }
    ELSE { ds \in UNION { [1..(2 * k) -> RandomDoubles] : k \in 1..(MaxRejects + 1) } :
             /\ random_in_unit_disk(ds).some
             /\ random_in_unit_disk(ds).val.used = Len(ds) }

CallGetRay(cam, i, j, s_i, s_j, d1, d2, ds) ==
    /\ app.op = "idle"
    /\ app' = [op |-> "get_ray", args |-> <<cam, i, j, s_i, s_j, d1, d2, ds>>,
               out |-> CameraGetRay(cam, i, j, s_i, s_j, d1, d2, ds)]
    /\ UNCHANGED <<world, bvh, cast, list_rec, bvh_rec, panicked, rc, rd>>

\* ---------------------------------------------------------------------------
\* BvhNode::from_objects_mut and BvhNode::hit called on their own
\* ---------------------------------------------------------------------------

\* the largest number of objects a tree is built from
MaxBuild == 4

\* the objects the vectors are filled with
BuildObjects ==
    SceneObjects \cup { SphereNew(Vec3(F(0), F(0), F(3)), F(1), Lambertian(splat(Q(1, 2)))) }

\* vectors of distinct boxed objects
BuildVecs ==
    { objs \in UNION { [1..n -> BuildObjects] : n \in 0..MaxBuild } :
        \A i \in 1..Len(objs), k \in 1..Len(objs) : objs[i] = objs[k] => i = k }

CallFromObjects(objs) ==
    /\ app.op = "idle"
    /\ app' = [op |-> "from_objects_mut", args |-> <<objs>>,
               out |-> from_objects_mut(objs), vec |-> from_objects_mut_vec(objs)]
    /\ UNCHANGED <<world, bvh, cast, list_rec, bvh_rec, panicked, rc, rd>>

\* one call of Object::hit: the object it is made on and the interval passed
Visit(o, ray_t) == [o |-> o, ray_t |-> ray_t]

RECURSIVE HitWalkNoTighten(_, _, _)
\* the slip "the right child is searched with the interval as it came in"
HitWalkNoTighten(o, r, ray_t) ==
    IF o.kind # "BvhNode"
    THEN [rec |-> Hit(o, r, ray_t), visits |-> <<Visit(o, ray_t)>>]
    ELSE IF ~AabbHit(o.bbox, r, ray_t)
    THEN [rec |-> None, visits |-> <<Visit(o, ray_t)>>]
    ELSE With(HitWalkNoTighten(o.left, r, ray_t), LAMBDA l :
         With(HitWalkNoTighten(o.right, r, ray_t), LAMBDA rt :
             [rec |-> IF rt.rec.some THEN rt.rec ELSE l.rec,
              visits |-> <<Visit(o, ray_t)>> \o l.visits \o rt.visits]))

RECURSIVE HitWalk(_, _, _)
\* BvhNode::hit with the calls of hit it makes, in the order it makes them:
\* the box test, self.left.hit(r, ray_t), ray_t.max = rec.t when that hit,
\* then self.right.hit(r, ray_t).or(rec)
HitWalk(o, r, ray_t) ==
    IF o.kind # "BvhNode"
    THEN [rec |-> Hit(o, r, ray_t), visits |-> <<Visit(o, ray_t)>>]
    ELSE IF ~AabbHit(o.bbox, r, ray_t)
    THEN [rec |-> None, visits |-> <<Visit(o, ray_t)>>]
    ELSE With(HitWalk(o.left, r, ray_t), LAMBDA l :
         With(IF l.rec.some THEN Interval(ray_t.min, l.rec.val.t) ELSE ray_t, LAMBDA ray_t2 :
         With(HitWalk(o.right, r, ray_t2), LAMBDA rt :
             [rec |-> IF rt.rec.some THEN rt.rec ELSE l.rec,
              visits |-> <<Visit(o, ray_t)>> \o l.visits \o rt.visits])))

\* vectors of one to three distinct objects, the trees BvhNode::hit is called on
HitVecs == { objs \in BuildVecs : Len(objs) >= 1 /\ Len(objs) <= MaxBuild - 1 }

CallBvhHit(objs, r, ray_t) ==
    /\ app.op = "idle"
    /\ ExactRay(objs, r)
    /\ app' = [op |-> "bvh_hit", args |-> <<from_objects_mut(objs), r, ray_t>>,
               out |-> HitWalk(from_objects_mut(objs), r, ray_t)]
    /\ UNCHANGED <<world, bvh, cast, list_rec, bvh_rec, panicked, rc, rd>>

NextObjects ==
    \/ \E s \in CallSpheres, r \in CallRays, ray_t \in CallRayIntervals :
            CallSphereHit(s, r, ray_t)
    \/ \E tr \in CallTriangles, o \in CallTriangleOrigins, d \in CallTriangleDirections,
          ray_t \in CallTriangleIntervals : CallTriangleHit(tr, Ray(o, d), ray_t)
    \/ \E r \in CallRays, t \in CallTs, n \in CallNormals :
            CallHitRecordNew(r, t, n, DummyMaterial)
    \/ \E m \in CallDielectrics, d \in CallIncoming, n \in CallSurfaceNormals,
          rand \in CallRands : CallDielectricScatter(m, d, n, rand)
    \/ \E cam \in LensCameras, i \in 0..1, j \in 0..1, s_i \in 0..1, s_j \in 0..1,
          d1 \in RandomDoubles, d2 \in RandomDoubles :
          \E ds \in DiskDraws(cam) : CallGetRay(cam, i, j, s_i, s_j, d1, d2, ds)
    \/ \E objs \in BuildVecs : CallFromObjects(objs)
    \/ \E objs \in HitVecs, o \in RayOrigins, d \in RayDirections, t \in RayIntervals :
          CallBvhHit(objs, Ray(o, d), t)
    \/ CallDone

SpecObjects == InitCalls /\ [][NextObjects]_vars

-----------------------------------------------------------------------------
(* Claims about objects, materials and the camera's rays *)

\* the two roots (h -+ sqrt(discriminant)) / a of the quadratic of Sphere::hit
SphereRoots(s, r) ==
    LET oc == VSub(s.center, r.origin)
        a == length_squared(r.direction)
        h == dot(r.direction, oc)
        sqrtd == FSqrt(SphereDiscriminant(s, r))
    IN <<FDiv(FSub(h, sqrtd), a), FDiv(FAdd(h, sqrtd), a)>>

\* C23: Sphere::hit misses when the discriminant is negative; otherwise its t
\* is the smaller root when that lies inside the interval, else the larger
\* root when that lies inside the interval, else it misses; a t it returns
\* lies inside the interval (strictly: Interval::surrounds).
C23_SphereHitRoots ==
    app.op = "sphere_hit" =>
        LET s == app.args[1]
            r == app.args[2]
            ray_t == app.args[3]
            roots == SphereRoots(s, r)
        IN /\ FLt(SphereDiscriminant(s, r), F(0)) => ~app.out.some
           /\ ~FLt(SphereDiscriminant(s, r), F(0)) =>
                IF FLt(ray_t.min, roots[1]) /\ FLt(roots[1], ray_t.max)
                THEN app.out.some /\ app.out.val.t = roots[1]
                ELSE IF FLt(ray_t.min, roots[2]) /\ FLt(roots[2], ray_t.max)
                THEN app.out.some /\ app.out.val.t = roots[2]
                ELSE ~app.out.some
           /\ app.out.some =>
                (FLt(ray_t.min, app.out.val.t) /\ FLt(app.out.val.t, ray_t.max))

\* a ray from inside the sphere: the smaller root lies behind the origin and
\* the larger one is returned
C23_Witness ==
    /\ app.op = "sphere_hit"
    /\ app.out.some
    /\ app.out.val.t = SphereRoots(app.args[1], app.args[2])[2]
    /\ SphereRoots(app.args[1], app.args[2])[1] # SphereRoots(app.args[1], app.args[2])[2]

\* the determinant e1 . (d x e2) of Triangle::hit
TriangleDet(tr, r) == dot(VSub(tr.b, tr.a), cross(r.direction, VSub(tr.c, tr.a)))

\* the triangle's normal, e1 x e2
TriangleNormal(tr) == cross(VSub(tr.b, tr.a), VSub(tr.c, tr.a))

\* the barycentric coordinates <<u, v>> of the point p of the triangle's
\* plane: p = a + u*e1 + v*e2, solved with the normal n = e1 x e2
Barycentric(tr, p) ==
    LET e1 == VSub(tr.b, tr.a)
        e2 == VSub(tr.c, tr.a)
        n == TriangleNormal(tr)
        w == VSub(p, tr.a)
    IN <<FDiv(dot(cross(w, e2), n), dot(n, n)), FDiv(dot(cross(e1, w), n), dot(n, n))>>

\* C24: Triangle::hit reports a hit only when the determinant is at least
\* 1e-8 in absolute value, the hit point a + u*e1 + v*e2 has 0 <= u <= 1,
\* 0 <= v <= 1 and u + v <= 1, and t lies in the interval (its ends
\* included); a ray whose direction is perpendicular to the normal misses.
C24_TriangleHitInside ==
    app.op = "triangle_hit" =>
        LET tr == app.args[1]
            r == app.args[2]
            ray_t == app.args[3]
        IN /\ app.out.some =>
                LET t == app.out.val.t
                    uv == Barycentric(tr, at(r, t))
                IN /\ FLe(Q(1, 100000000), FAbs(TriangleDet(tr, r)))
                   /\ dot(VSub(at(r, t), tr.a), TriangleNormal(tr)) = F(0)
                   /\ app.out.val.point = at(r, t)
                   /\ FLe(F(0), uv[1]) /\ FLe(uv[1], F(1))
                   /\ FLe(F(0), uv[2]) /\ FLe(uv[2], F(1))
                   /\ FLe(FAdd(uv[1], uv[2]), F(1))
                   /\ FLe(ray_t.min, t) /\ FLe(t, ray_t.max)
           /\ dot(r.direction, TriangleNormal(tr)) = F(0) => ~app.out.some

\* a hit on the edge u + v = 1 with t at the end of the interval
C24_Witness ==
    /\ app.op = "triangle_hit"
    /\ app.out.some
    /\ app.out.val.t = app.args[3].max
    /\ FAdd(Barycentric(app.args[1], app.out.val.point)[1],
            Barycentric(app.args[1], app.out.val.point)[2]) = F(1)

\* a ray in the plane of the triangle, and one all but in it, miss
C24_WitnessParallel ==
    /\ app.op = "triangle_hit"
    /\ ~app.out.some
    /\ TriangleDet(app.args[1], app.args[2]) = Q(1, 1000000000)

\* C25: every HitRecord of HitRecord::new (and so of Sphere::hit and
\* Triangle::hit) has a normal that opposes the ray, direction . normal <= 0:
\* front_face is true exactly when direction . outward_normal <= 0, the normal
\* is the outward normal when front_face is true and its negation otherwise,
\* and point is ray.at(t).
C25_NormalOpposesRay ==
    /\ app.op = "hit_record_new" =>
        LET r == app.args[1]
            t == app.args[2]
            outward_normal == app.args[3]
        IN /\ FLe(dot(r.direction, app.out.normal), F(0))
           /\ app.out.front_face <=> FLe(dot(r.direction, outward_normal), F(0))
           /\ app.out.front_face => app.out.normal = outward_normal
           /\ ~app.out.front_face => app.out.normal = VNeg(outward_normal)
           /\ app.out.point = at(r, t)
           /\ app.out.t = t
    /\ (app.op \in {"sphere_hit", "triangle_hit"} /\ app.out.some) =>
        /\ FLe(dot(app.args[2].direction, app.out.val.normal), F(0))
        /\ app.out.val.point = at(app.args[2], app.out.val.t)

\* a record of a ray that leaves the surface: the normal was negated
C25_Witness ==
    /\ app.op = "hit_record_new"
    /\ ~app.out.front_face
    /\ app.out.normal = VNeg(app.args[3])
    /\ app.out.normal # app.args[3]

\* a sphere hit from inside
C25_WitnessSphere ==
    /\ app.op = "sphere_hit"
    /\ app.out.some
    /\ ~app.out.val.front_face

\* the part of v along the surface whose normal is n (a unit vector)
Tangential(v, n) == VSub(v, VScale(n, dot(v, n)))

\* the ratio of the refraction indices Dielectric::scatter should use when
\* it inverts the index of the material on the given side
RatioInvertedOn(front_face_inverts, m, rec) ==
    IF rec.front_face = front_face_inverts
    THEN FRecip(m.refraction_index) ELSE m.refraction_index

\* Dielectric::scatter returned a record of attenuation (1,1,1) with a
\* skip_pdf ray from the hit point that is bent by the ratio ri: reflected
\* (back to the side of the normal) exactly when ri * sin(theta) > 1 or the
\* reflectance exceeds the random value, and otherwise refracted so that its
\* tangential part is ri times that of the incoming unit direction
ScatteredWithRatio(ri) ==
    LET m == app.args[1]
        r_in == app.args[2]
        rec == app.args[3]
        rand == app.args[4]
        unit_direction == unit_vector(r_in.direction)
        cos_theta == FMin(FNeg(dot(unit_direction, rec.normal)), F(1))
        sin_theta == FSqrt(FSub(F(1), FMul(cos_theta, cos_theta)))
        reflects == FLt(F(1), FMul(ri, sin_theta)) \/ FLt(rand, reflectance(ri, cos_theta))
    IN /\ app.out.some
       /\ app.out.val.attenuation = splat(F(1))
       /\ app.out.val.skip_pdf.some
       /\ app.out.val.skip_pdf.val.origin = rec.point
       /\ LET direction == app.out.val.skip_pdf.val.direction
          IN IF reflects
             THEN /\ FLt(F(0), dot(direction, rec.normal))
                  /\ Tangential(direction, rec.normal) = Tangential(unit_direction, rec.normal)
             ELSE /\ FLt(dot(direction, rec.normal), F(0))
                  /\ Tangential(direction, rec.normal)
                        = VScale(Tangential(unit_direction, rec.normal), ri)

\* C26 as stated: Dielectric::scatter uses the inverted index 1/refraction_index
\* when the ray leaves the surface (front_face false) and the index unchanged
\* when it enters (front_face true); it always returns a ScatterRecord of
\* attenuation (1,1,1) with a skip_pdf ray.
C26_InvertedWhenExiting ==
    app.op = "dielectric_scatter" =>
        ScatteredWithRatio(RatioInvertedOn(FALSE, app.args[1], app.args[3]))

\* C26 as the code has it: Dielectric::scatter uses the inverted index
\* 1/refraction_index when the ray enters the surface (front_face true) and
\* the index unchanged when it leaves (front_face false); it always returns a
\* ScatterRecord of attenuation (1,1,1) with a skip_pdf ray.
C26_InvertedWhenEntering ==
    app.op = "dielectric_scatter" =>
        ScatteredWithRatio(RatioInvertedOn(TRUE, app.args[1], app.args[3]))

\* a ray entering at an angle was refracted: its tangential part shrank
C26_Witness ==
    /\ app.op = "dielectric_scatter"
    /\ app.args[3].front_face
    /\ FLt(dot(app.out.val.skip_pdf.val.direction, app.args[3].normal), F(0))
    /\ Tangential(app.out.val.skip_pdf.val.direction, app.args[3].normal)
            # Tangential(unit_vector(app.args[2].direction), app.args[3].normal)

-----------------------------------------------------------------------------
(* Claims about the materials inside Camera::ray_color *)

\* the call of ray_color that just ran hit a DiffuseLight
HitALight ==
    /\ rc.pc # "idle"
    /\ rc.st.last.op = "enter"
    /\ rc.st.last.frame.depth > 0
    /\ FrameHit(rc.st.last.frame).some
    /\ FrameHit(rc.st.last.frame).val.material.kind = "DiffuseLight"

\* C27: a DiffuseLight never scatters, whatever the ray, the hit and the
\* random values, and it emits its colour when the hit is on its front face
\* and black when it is not; so a call of ray_color whose ray reaches a
\* DiffuseLight returns that emission, without a recursive call (or panics
\* when the emission is not finite).
C27_LightEndsPath ==
    HitALight =>
        LET last == rc.st.last
            rec == FrameHit(last.frame).val
            emission == IF rec.front_face THEN rec.material.color ELSE Black
        IN /\ \A u \in RcDraws : ~scatter(rec.material, last.frame.r, rec, u).some
           /\ last.frame.made = 0
           /\ last.how \in {"emission", "panic"}
           /\ last.how = "panic" <=> ~assert_finite(emission)
           /\ last.how = "panic" <=> rc.st.panicked
           /\ last.how = "emission" => rc.st.ret = Some(emission)

\* a ray scattered by another object reached the front of a light: the call
\* returned the light's colour to its caller
C27_Witness ==
    /\ HitALight
    /\ FrameHit(rc.st.last.frame).val.front_face
    /\ rc.st.ret = Some(splat(F(4)))
    /\ rc.st.stack # <<>>

\* a ray from inside a light: no emission
C27_WitnessBack ==
    /\ HitALight
    /\ ~FrameHit(rc.st.last.frame).val.front_face
    /\ rc.st.ret = Some(Black)

\* ---------------------------------------------------------------------------
\* Claims about Camera::get_ray
\* ---------------------------------------------------------------------------

\* points of the open unit disk, one in every quadrant and on every half-axis
DiskGrid == { <<x, y>> \in { Q(-1, 2), F(0), Q(1, 2) } \X { Q(-1, 2), F(0), Q(1, 2) } : TRUE }

\* the origins get_ray can return for the camera, over every stream of draws
PossibleOrigins(cam) == { GetRayOrigin(cam, ds) : ds \in DiskDraws(cam) }

GetRayCalled == app.op = "get_ray"

\* the coordinates (x, y) of the returned origin on the defocus disk:
\* origin = center + x * defocus_disk_u + y * defocus_disk_v
OnDisk(cam, origin, q) == origin = defocus_disk_sample(cam, Vec3(q[1], q[2], F(0)))

\* C28: Camera::get_ray sets the origin to the camera centre when
\* defocus_angle <= 0 and otherwise to a point of the defocus disk, where
\* every point center + x * defocus_disk_u + y * defocus_disk_v with
\* x*x + y*y < 1, negative x or y included, is a possible origin; the
\* direction is the jittered pixel position minus the origin
C28_DefocusDiskCovered ==
    GetRayCalled =>
        LET cam == app.args[1]
            offset == sample_square_stratified(cam, app.args[4], app.args[5],
                                               app.args[6], app.args[7])
        IN /\ FLe(cam.defocus_angle, F(0)) => app.out.origin = cam.center
           /\ ~FLe(cam.defocus_angle, F(0)) =>
                 \A q \in DiskGrid :
                    \E o \in PossibleOrigins(cam) : OnDisk(cam, o, q)
           /\ app.out.direction =
                 VSub(pixel_sample(cam, app.args[2], app.args[3], offset), app.out.origin)

\* what get_ray does instead: the origin of a thin-lens ray is a point of the
\* quarter of the defocus disk with x >= 0 and y >= 0
C28_OriginInPositiveQuadrant ==
    (GetRayCalled /\ ~FLe(app.args[1].defocus_angle, F(0))) =>
        \E x \in RandomDoubles, y \in RandomDoubles :
            /\ FLt(FAdd(FMul(x, x), FMul(y, y)), F(1))
            /\ OnDisk(app.args[1], app.out.origin, <<x, y>>)

\* the rest of the statement holds: centre for a pinhole, and the direction
C28_PinholeAndDirection ==
    GetRayCalled =>
        LET cam == app.args[1]
            offset == sample_square_stratified(cam, app.args[4], app.args[5],
                                               app.args[6], app.args[7])
        IN /\ FLe(cam.defocus_angle, F(0)) => app.out.origin = cam.center
           /\ app.out.direction =
                 VSub(pixel_sample(cam, app.args[2], app.args[3], offset), app.out.origin)

C28_WitnessLens ==
    /\ GetRayCalled
    /\ ~FLe(app.args[1].defocus_angle, F(0))
    /\ Len(app.args[8]) = 4
    /\ app.out.origin # app.args[1].center

\* ---------------------------------------------------------------------------
\* Claims about ObjectList::hit and the tree BvhNode::from_objects_mut builds
\* ---------------------------------------------------------------------------

\* a ray has been cast and ObjectList::hit has returned
ListHitReturned == cast.some /\ list_rec # Pending

\* what the i-th object of the list reports alone for the ray and interval cast
OwnHit(i) == Hit(world.objects[i], cast.val.r, cast.val.ray_t)

\* C29: ObjectList::hit returns no hit exactly when no object of the list
\* reports a hit in the interval, and otherwise a record whose t is at most
\* the t every object of the list reports for the same ray and interval
C29_ListHitNearest ==
    ListHitReturned =>
        /\ list_rec.some <=> \E i \in 1..Len(world.objects) : OwnHit(i).some
        /\ list_rec.some =>
              \A i \in 1..Len(world.objects) :
                 OwnHit(i).some => FLe(list_rec.val.t, OwnHit(i).val.t)

\* two objects of the list are hit and the second is the nearer one
C29_Witness ==
    /\ ListHitReturned
    /\ Len(world.objects) >= 2
    /\ OwnHit(1).some /\ OwnHit(2).some
    /\ FLt(OwnHit(2).val.t, OwnHit(1).val.t)
    /\ list_rec = OwnHit(2)

\* no object of the list is hit
C29_WitnessMiss ==
    /\ ListHitReturned
    /\ Len(world.objects) >= 2
    /\ ~list_rec.some

\* the child positions of the tree that hold a primitive, left to right
RECURSIVE Slots(_)
Slots(o) == IF o.kind = "BvhNode" THEN Slots(o.left) \o Slots(o.right) ELSE <<o>>

\* the primitives beneath an object
Primitives(o) == { Slots(o)[k] : k \in 1..Len(Slots(o)) }

\* the nodes of the tree, the root first
RECURSIVE Nodes(_)
Nodes(o) == IF o.kind = "BvhNode" THEN <<o>> \o Nodes(o.left) \o Nodes(o.right) ELSE <<>>

\* the nodes both of whose children are primitives
LowestNodes(o) ==
    { k \in 1..Len(Nodes(o)) :
        Nodes(o)[k].left.kind # "BvhNode" /\ Nodes(o)[k].right.kind # "BvhNode" }

\* from_objects_mut has returned the tree of n >= 2 objects
TreeBuilt == app.op = "from_objects_mut" /\ Len(app.args[1]) >= 2

BalancedByCount(o) ==
    \A k \in 1..Len(Nodes(o)) :
        LET l == Cardinality(Primitives(Nodes(o)[k].left))
            r == Cardinality(Primitives(Nodes(o)[k].right))
        IN l - r \in { -1, 0, 1 }

NothingAdded(o, objs) == \A p \in Primitives(o) : \E i \in 1..Len(objs) : objs[i] = p

\* C21 as stated: the tree of n >= 2 objects is balanced by count, every
\* input object appears in exactly one leaf position, no other object
\* appears and the input vector is left empty
C21_EachObjectInOneLeaf ==
    TreeBuilt =>
        /\ BalancedByCount(app.out)
        /\ \A i \in 1..Len(app.args[1]) : Occurrences(Slots(app.out), app.args[1][i]) = 1
        /\ NothingAdded(app.out, app.args[1])
        /\ app.vec = <<>>

\* C21 amended: the tree of n >= 2 objects is balanced by count, every input
\* object is held by exactly one lowest node, as one of its children when the
\* node was built from two objects and as both when it was built from one, no
\* other object appears and the input vector is left empty
C21_EachObjectInOneLowestNode ==
    TreeBuilt =>
        /\ BalancedByCount(app.out)
        /\ \A i \in 1..Len(app.args[1]) :
              /\ Cardinality({ k \in LowestNodes(app.out) :
                                 app.args[1][i] \in Primitives(Nodes(app.out)[k]) }) = 1
              /\ Occurrences(Slots(app.out), app.args[1][i]) \in { 1, 2 }
              /\ Occurrences(Slots(app.out), app.args[1][i]) = 2 <=>
                    \E k \in LowestNodes(app.out) :
                       /\ Nodes(app.out)[k].left = app.args[1][i]
                       /\ Nodes(app.out)[k].right = app.args[1][i]
        /\ \A k \in 1..Len(Nodes(app.out)) : k \in LowestNodes(app.out) \/
              (Nodes(app.out)[k].left.kind = "BvhNode" /\ Nodes(app.out)[k].right.kind = "BvhNode")
        /\ NothingAdded(app.out, app.args[1])
        /\ app.vec = <<>>

\* a tree of three objects: the left child is the node of one object
C21_Witness ==
    /\ TreeBuilt
    /\ Len(app.args[1]) = 3
    /\ app.out.left.kind = "BvhNode"
    /\ app.out.left.left = app.out.left.right
    /\ Cardinality(Primitives(app.out.right)) = 2
    /\ app.vec = <<>>

\* a tree of four objects, two under each child
C21_WitnessEven ==
    /\ TreeBuilt
    /\ Len(app.args[1]) = 4
    /\ Cardinality(Primitives(app.out.left)) = 2
    /\ Cardinality(Primitives(app.out.right)) = 2

\* the smallest interval that holds the intervals of the set
HullOf(intervals) ==
    Interval((CHOOSE i \in intervals : \A k \in intervals : FLe(i.min, k.min)).min,
             (CHOOSE i \in intervals : \A k \in intervals : FLe(k.max, i.max)).max)

\* the box that holds the bounding boxes of the primitives beneath the node
HullBox(node) ==
    Aabb(HullOf({ bounding_box(p).x : p \in Primitives(node) }),
         HullOf({ bounding_box(p).y : p \in Primitives(node) }),
         HullOf({ bounding_box(p).z : p \in Primitives(node) }))

IntervalWithin(inner, outer) == FLe(outer.min, inner.min) /\ FLe(inner.max, outer.max)

BoxWithin(inner, outer) ==
    /\ IntervalWithin(inner.x, outer.x)
    /\ IntervalWithin(inner.y, outer.y)
    /\ IntervalWithin(inner.z, outer.z)

\* C30: in every tree from_objects_mut builds, the box stored in each node is
\* the merge of the bounding boxes of all primitives beneath it, and it holds
\* the box of each of its two children on every axis
C30_NodeBoxIsHull ==
    (app.op = "from_objects_mut" /\ Len(app.args[1]) >= 1) =>
        \A k \in 1..Len(Nodes(app.out)) :
            LET node == Nodes(app.out)[k]
            IN /\ node.bbox = HullBox(node)
               /\ BoxWithin(bounding_box(node.left), node.bbox)
               /\ BoxWithin(bounding_box(node.right), node.bbox)

\* a tree of four objects whose root box is strictly larger than the boxes of
\* both children, which are nodes themselves
C30_Witness ==
    /\ app.op = "from_objects_mut"
    /\ Len(app.args[1]) = 4
    /\ app.out.left.kind = "BvhNode" /\ app.out.right.kind = "BvhNode"
    /\ app.out.bbox # app.out.left.bbox
    /\ app.out.bbox # app.out.right.bbox
    /\ app.out.bbox = HullBox(app.out)

\* ---------------------------------------------------------------------------
\* Claims about BvhNode::hit
\* ---------------------------------------------------------------------------

BvhHitReturned == app.op = "bvh_hit"

\* the interval the right child is searched with after the left child
\* returned lrec
Lowered(ray_t, lrec) == IF lrec.some THEN Interval(ray_t.min, lrec.val.t) ELSE ray_t

\* C22: BvhNode::hit tests the box first and returns no hit without visiting
\* a child when the test misses; otherwise it visits the left child, then the
\* right child with the upper bound lowered to the left hit's t when the left
\* child hit, and returns the right result when it exists and the left result
\* otherwise, so the returned t is never larger than the left hit's t. It is
\* stated of every call of BvhNode::hit the traversal makes.
C22_BvhHitOrder ==
    BvhHitReturned =>
        LET r == app.args[2]
            vs == app.out.visits
        IN /\ vs[1] = Visit(app.args[1], app.args[3])
           /\ app.out.rec = Hit(app.args[1], r, app.args[3])
           /\ \A p \in 1..Len(vs) :
                 vs[p].o.kind = "BvhNode" =>
                   LET node == vs[p].o
                       ray_t == vs[p].ray_t
                       sub == HitWalk(node, r, ray_t)
                       lrec == Hit(node.left, r, ray_t)
                       k == Len(HitWalk(node.left, r, ray_t).visits)
                       rrec == Hit(node.right, r, Lowered(ray_t, lrec))
                   IN /\ SubSeq(vs, p, p + Len(sub.visits) - 1) = sub.visits
                      /\ ~AabbHit(node.bbox, r, ray_t) =>
                            Len(sub.visits) = 1 /\ ~sub.rec.some
                      /\ AabbHit(node.bbox, r, ray_t) =>
                            /\ vs[p + 1] = Visit(node.left, ray_t)
                            /\ vs[p + 1 + k] = Visit(node.right, Lowered(ray_t, lrec))
                            /\ Len(sub.visits) =
                                  1 + k + Len(HitWalk(node.right, r, Lowered(ray_t, lrec)).visits)
                            /\ sub.rec = (IF rrec.some THEN rrec ELSE lrec)
                            /\ lrec.some => (sub.rec.some /\ FLe(sub.rec.val.t, lrec.val.t))

\* both children of the root are nodes, the left one reports a hit and the
\* right one, searched below that hit, reports a nearer one
C22_Witness ==
    /\ BvhHitReturned
    /\ app.args[1].left.kind = "BvhNode" /\ app.args[1].right.kind = "BvhNode"
    /\ AabbHit(app.args[1].bbox, app.args[2], app.args[3])
    /\ Hit(app.args[1].left, app.args[2], app.args[3]).some
    /\ app.out.rec.some
    /\ FLt(app.out.rec.val.t, Hit(app.args[1].left, app.args[2], app.args[3]).val.t)

\* the box test of the root misses and no child is visited
C22_WitnessMiss ==
    /\ BvhHitReturned
    /\ ~AabbHit(app.args[1].bbox, app.args[2], app.args[3])
    /\ Len(app.out.visits) = 1
    /\ app.out.rec = None

\* the left child hits and the right child, searched below that hit, misses
C22_WitnessLeftKept ==
    /\ BvhHitReturned
    /\ app.args[1].left # app.args[1].right
    /\ Hit(app.args[1].left, app.args[2], app.args[3]).some
    /\ Hit(app.args[1].right, app.args[2], app.args[3]).some
    /\ app.out.rec = Hit(app.args[1].left, app.args[2], app.args[3])

====
